---- MODULE Spec2Model ----
(***************************************************************************)
(* Guardrail coverage computation and multi-root aggregation of the LDF    *)
(* VS Code extension (GuardrailTreeProvider).                               *)
(*                                                                         *)
(* The provider is modelled from the path-keyed revision of                 *)
(* guardrailView.ts (src/unnamed/part_005), the revision the repository's   *)
(* duplicate-basename tests (src/unnamed/part_003) and extension.ts         *)
(* (getActiveProject) belong to.                                            *)
(*                                                                         *)
(* Representation:                                                          *)
(*  - a path is the sequence of its segments, path.basename is the last     *)
(*    segment and path.join is concatenation;                               *)
(*  - a display name `${base}/${spec}` is the sequence <<base, spec>>, a    *)
(*    bare spec name the sequence <<spec>>;                                 *)
(*  - a JS Map is the sequence of its [k, v] entries in insertion order;    *)
(*  - the text of a status cell is the sequence of its characters;          *)
(*  - a value of a parsed YAML document carries its JS type in field t.     *)
(***************************************************************************)
EXTENDS Integers, Sequences, FiniteSets, TLC

\* ------------------------------------------------------------------------
\* Bounds of the model
\* ------------------------------------------------------------------------

\* longest list of per-spec statuses handed to calculateOverallStatus alone
MaxRows == 4

\* longest selected_ids list of the documents the resolver is applied to
MaxSelected == 2

\* ------------------------------------------------------------------------
\* Generic helpers (Array / Map of the JS runtime)
\* ------------------------------------------------------------------------

Range(s) == {s[i] : i \in DOMAIN s}

Includes(s, x) == \E i \in DOMAIN s : s[i] = x

SeqsUpTo(S, n) == UNION {[1..k -> S] : k \in 0..n}

Pick(S) == CHOOSE x \in S : TRUE

\* `const x = v; return F(x)`: v is evaluated once and F applied to its value
Const(v, F(_)) == Pick({F(x) : x \in {v}})

Min(S) == CHOOSE x \in S : \A y \in S : x <= y

Max(S) == CHOOSE x \in S : \A y \in S : x >= y

\* index of the first element satisfying Test, 0 if none (Array.prototype.find)
FindIndex(s, Test(_)) ==
    LET hits == {i \in DOMAIN s : Test(s[i])}
    IN  IF hits = {} THEN 0 ELSE Min(hits)

MapClearKeep(m) == m

MapClear(m) == <<>>

MapHas(m, k) == \E i \in DOMAIN m : m[i].k = k

MapIndex(m, k) == CHOOSE i \in DOMAIN m : m[i].k = k

MapGet(m, k) == m[MapIndex(m, k)].v

\* Map.prototype.set: an existing key keeps its position, a new key is appended
MapSet(m, k, v) ==
    IF MapHas(m, k)
    THEN [m EXCEPT ![MapIndex(m, k)] = [k |-> k, v |-> v]]
    ELSE Append(m, [k |-> k, v |-> v])

MapKeys(m) == [i \in DOMAIN m |-> m[i].k]

MapValues(m) == [i \in DOMAIN m |-> m[i].v]

\* ------------------------------------------------------------------------
\* Coverage reducer
\* ------------------------------------------------------------------------

SpecStatus == {"done", "todo", "partial", "n/a"}

calculateOverallStatusSomeNA(specCoverage) ==
    IF Len(specCoverage) = 0 THEN "not-covered"
    ELSE LET statuses   == [i \in DOMAIN specCoverage |-> specCoverage[i].status]
             hasDone    == Includes(statuses, "done")
             hasTodo    == Includes(statuses, "todo")
             hasPartial == Includes(statuses, "partial")
             allNA      == \E i \in DOMAIN statuses : statuses[i] = "n/a"
         IN  IF allNA THEN "not-applicable"
             ELSE IF hasPartial \/ (hasDone /\ hasTodo) THEN "partial"
             ELSE IF hasDone /\ ~hasTodo /\ ~hasPartial THEN "covered"
             ELSE "not-covered"

calculateOverallStatus(specCoverage) ==
    IF Len(specCoverage) = 0 THEN "not-covered"
    ELSE LET statuses   == [i \in DOMAIN specCoverage |-> specCoverage[i].status]
             hasDone    == Includes(statuses, "done")
             hasTodo    == Includes(statuses, "todo")
             hasPartial == Includes(statuses, "partial")
             allNA      == \A i \in DOMAIN statuses : statuses[i] = "n/a"
         IN  IF allNA THEN "not-applicable"
             ELSE IF hasPartial \/ (hasDone /\ hasTodo) THEN "partial"
             ELSE IF hasDone /\ ~hasTodo /\ ~hasPartial THEN "covered"
             ELSE "not-covered"

\* ------------------------------------------------------------------------
\* Rule catalog
\* ------------------------------------------------------------------------

Severities == {"critical", "high", "medium", "low"}

Guardrail(id, name, description, severity) ==
    [id |-> id, name |-> name, description |-> description,
     severity |-> severity, enabled |-> TRUE]

CORE_GUARDRAILS ==
    <<
       Guardrail(1, "Testing Coverage", "Minimum test coverage thresholds", "critical"),
       Guardrail(2, "Security Basics", "OWASP Top 10 prevention", "critical"),
       Guardrail(3, "Error Handling", "Consistent error responses", "high"),
       Guardrail(4, "Logging & Observability", "Structured logging, correlation IDs", "high"),
       Guardrail(5, "API Design", "Versioning, pagination, error format", "high"),
       Guardrail(6, "Data Validation", "Input validation at boundaries", "critical"),
       Guardrail(7, "Database Migrations", "Reversible, separate from backfills", "high"),
       Guardrail(8, "Documentation", "API docs, README, inline comments", "medium")
    >>

PresetNames == {"saas", "fintech", "healthcare", "api-only"}

PRESET_GUARDRAILS ==
    [p \in PresetNames |->
       CASE p = "saas" -> <<
       Guardrail(9, "Multi-Tenancy Isolation", "Tenant data isolation", "critical"),
       Guardrail(10, "Row-Level Security", "Database-level tenant isolation", "critical"),
       Guardrail(11, "Subscription Billing", "Billing and subscription handling", "high"),
       Guardrail(12, "Audit Logging", "Security event tracking", "high"),
       Guardrail(13, "Data Export/Portability", "User data export capability", "medium") >>
         [] p = "fintech" -> <<
       Guardrail(14, "Double-Entry Ledger", "Balanced financial transactions", "critical"),
       Guardrail(15, "Decimal Precision", "Accurate monetary calculations", "critical"),
       Guardrail(16, "Transaction Idempotency", "Safe retry handling for payments", "critical"),
       Guardrail(17, "Audit Trail", "Immutable financial records", "critical"),
       Guardrail(18, "Regulatory Compliance", "Financial regulation adherence", "high"),
       Guardrail(19, "Reconciliation", "Balance verification processes", "high"),
       Guardrail(20, "Currency Handling", "Multi-currency support", "high") >>
         [] p = "healthcare" -> <<
       Guardrail(21, "HIPAA Compliance", "PHI protection requirements", "critical"),
       Guardrail(22, "PHI Encryption", "Protected health info encryption", "critical"),
       Guardrail(23, "Access Logging", "PHI access audit trail", "critical"),
       Guardrail(24, "Consent Management", "Patient consent tracking", "high"),
       Guardrail(25, "Data Retention", "PHI retention policies", "high"),
       Guardrail(26, "Breach Notification", "HIPAA breach procedures", "critical") >>
         [] p = "api-only" -> <<
       Guardrail(27, "API Versioning", "Backward-compatible versions", "high"),
       Guardrail(28, "Rate Limiting", "Request throttling per client", "high"),
       Guardrail(29, "API Key Management", "Secure key lifecycle", "critical"),
       Guardrail(30, "Webhook Delivery", "Reliable event notifications", "high") >>]

DecimalDigits == <<"0", "1", "2", "3", "4", "5", "6", "7", "8", "9">>

\* String(n) of a non-negative integer
RECURSIVE DecStr(_)
DecStr(n) ==
    IF n < 10 THEN DecimalDigits[n + 1]
    ELSE DecStr(n \div 10) \o DecimalDigits[(n % 10) + 1]

\* ------------------------------------------------------------------------
\* Values of a parsed YAML document (js-yaml output), with their JS type
\* ------------------------------------------------------------------------

Undefined == [t |-> "undefined"]

JNull == [t |-> "null"]

JStr(s) == [t |-> "string", s |-> s]

JNum(n) == [t |-> "number", n |-> n]

JBool(b) == [t |-> "boolean", b |-> b]

\* a: the sequence of the elements
JArr(a) == [t |-> "array", a |-> a]

\* o: the sequence of the [k, v] entries, keys distinct (Object.entries order)
JObj(o) == [t |-> "object", o |-> o]

TypeOf(v) == IF v.t \in {"null", "array", "object"} THEN "object" ELSE v.t

IsArray(v) == v.t = "array"

Truthy(v) ==
    CASE v.t = "undefined" -> FALSE
      [] v.t = "null"      -> FALSE
      [] v.t = "string"    -> v.s # ""
      [] v.t = "number"    -> v.n # 0
      [] v.t = "boolean"   -> v.b
      [] OTHER             -> TRUE

Entries(v) ==
    CASE v.t = "object" -> v.o
      [] v.t = "array"  -> [i \in DOMAIN v.a |-> [k |-> DecStr(i - 1), v |-> v.a[i]]]
      [] OTHER          -> <<>>

\* v[key]: own property of an object or array, undefined otherwise
Prop(v, key) ==
    LET es == Entries(v)
    IN  IF \E i \in DOMAIN es : es[i].k = key
        THEN es[CHOOSE i \in DOMAIN es : es[i].k = key].v
        ELSE Undefined

\* keys every object inherits from Object.prototype
ObjectPrototypeKeys ==
    {"constructor", "toString", "valueOf", "hasOwnProperty", "isPrototypeOf",
     "propertyIsEnumerable", "toLocaleString", "__proto__"}

\* ------------------------------------------------------------------------
\* Configuration documents
\* ------------------------------------------------------------------------

\* no file at the path
NoFile == [kind |-> "absent"]

\* readFileSync or yaml.load throws
BadYaml == [kind |-> "throws"]

\* yaml.load returns null or undefined (empty document)
EmptyDoc == [kind |-> "empty"]

ConfigDoc(preset, overrides, disabled, custom, selected_ids) ==
    [kind |-> "object", preset |-> preset, overrides |-> overrides,
     disabled |-> disabled, custom |-> custom, selected_ids |-> selected_ids]

validSeverities == <<"critical", "high", "medium", "low">>

ValidatePreset(config) ==
    IF config.preset # Undefined /\ TypeOf(config.preset) # "string"
    THEN << <<"preset must be a string">> >> ELSE <<>>

ValidateOverrides(config) ==
    IF config.overrides = Undefined THEN <<>>
    ELSE IF TypeOf(config.overrides) # "object" \/ config.overrides = JNull
    THEN << <<"overrides must be an object">> >>
    ELSE LET es == Entries(config.overrides)
             bad == SelectSeq(es, LAMBDA e : TypeOf(e.v) # "object" \/ e.v = JNull)
         IN  [i \in DOMAIN bad |-> <<"overrides.", bad[i].k, " must be an object">>]

ValidateDisabled(config) ==
    IF config.disabled = Undefined THEN <<>>
    ELSE IF ~IsArray(config.disabled)
    THEN << <<"disabled must be an array">> >>
    ELSE LET a == config.disabled.a
             bad == SelectSeq([i \in DOMAIN a |-> i],
                              LAMBDA i : TypeOf(a[i]) \notin {"number", "string"})
         IN  [i \in DOMAIN bad |->
                <<"disabled[", DecStr(bad[i] - 1), "] must be a number or string">>]

ValidateCustomItem(custom, i) ==
    IF TypeOf(custom) # "object" \/ custom = JNull
    THEN << <<"custom[", DecStr(i - 1), "] must be an object">> >>
    ELSE (IF TypeOf(Prop(custom, "id")) # "number"
          THEN << <<"custom[", DecStr(i - 1), "].id must be a number">> >> ELSE <<>>)
         \o
         (IF TypeOf(Prop(custom, "name")) # "string"
          THEN << <<"custom[", DecStr(i - 1), "].name must be a string">> >> ELSE <<>>)
         \o
         (IF /\ Prop(custom, "severity") # Undefined
             /\ ~\E k \in DOMAIN validSeverities :
                    Prop(custom, "severity") = JStr(validSeverities[k])
          THEN << <<"custom[", DecStr(i - 1), "].severity must be one of: ",
                    "critical, high, medium, low">> >>
          ELSE <<>>)

RECURSIVE ValidateCustomFrom(_, _)
ValidateCustomFrom(a, i) ==
    IF i > Len(a) THEN <<>>
    ELSE ValidateCustomItem(a[i], i) \o ValidateCustomFrom(a, i + 1)

ValidateCustom(config) ==
    IF config.custom = Undefined THEN <<>>
    ELSE IF ~IsArray(config.custom)
    THEN << <<"custom must be an array">> >>
    ELSE ValidateCustomFrom(config.custom.a, 1)

ValidateSelectedIds(config) ==
    IF config.selected_ids = Undefined THEN <<>>
    ELSE IF ~IsArray(config.selected_ids)
    THEN << <<"selected_ids must be an array">> >>
    ELSE LET a == config.selected_ids.a
             bad == SelectSeq([i \in DOMAIN a |-> i],
                              LAMBDA i : TypeOf(a[i]) # "number")
         IN  [i \in DOMAIN bad |->
                <<"selected_ids[", DecStr(bad[i] - 1), "] must be a number">>]

\* the list of validation errors, empty when the document is well-formed
validateGuardrailConfig(config) ==
    ValidatePreset(config) \o ValidateOverrides(config) \o ValidateDisabled(config)
        \o ValidateCustom(config) \o ValidateSelectedIds(config)

\* ------------------------------------------------------------------------
\* Rule-set resolver (loadGuardrailsForWorkspace)
\* ------------------------------------------------------------------------

\* path.basename / path.join on segment sequences
Basename(p) == p[Len(p)]

PathJoin(p, q) == p \o q

\* preset names whose lookup in PRESET_GUARDRAILS yields an inherited,
\* non-array value: calling .map on it throws a TypeError
PresetLookupThrows(config) ==
    /\ Truthy(config.preset)
    /\ config.preset.s # "custom"
    /\ config.preset.s \in ObjectPrototypeKeys

\* the bundle is put before the rules
ApplyPresetBefore(guardrails, config) ==
    IF /\ Truthy(config.preset)
       /\ config.preset.s # "custom"
       /\ config.preset.s \in DOMAIN PRESET_GUARDRAILS
    THEN PRESET_GUARDRAILS[config.preset.s] \o guardrails
    ELSE guardrails

ApplyPreset(guardrails, config) ==
    IF /\ Truthy(config.preset)
       /\ config.preset.s # "custom"
       /\ config.preset.s \in DOMAIN PRESET_GUARDRAILS
    THEN guardrails \o PRESET_GUARDRAILS[config.preset.s]
    ELSE guardrails

ApplyOverrides(guardrails, config) ==
    IF Truthy(config.overrides)
    THEN [i \in DOMAIN guardrails |->
            LET guardrail == guardrails[i]
                override  == Prop(config.overrides, DecStr(guardrail.id))
            IN  IF Truthy(override) /\ TypeOf(Prop(override, "enabled")) = "boolean"
                THEN [guardrail EXCEPT !.enabled = Prop(override, "enabled").b]
                ELSE guardrail]
    ELSE guardrails

IsDisabled(guardrail, disabled) ==
    \E i \in DOMAIN disabled :
        LET d == disabled[i]
        IN  \/ d.t = "number" /\ d.n = guardrail.id
            \/ d.t = "string" /\ d.s = DecStr(guardrail.id)
            \/ d.t = "string" /\ d.s = guardrail.name

ApplyDisabledUnlessOverridden(guardrails, config) ==
    IF Truthy(config.disabled) /\ IsArray(config.disabled)
    THEN [i \in DOMAIN guardrails |->
            IF /\ IsDisabled(guardrails[i], config.disabled.a)
               /\ ~Truthy(Prop(config.overrides, DecStr(guardrails[i].id)))
            THEN [guardrails[i] EXCEPT !.enabled = FALSE]
            ELSE guardrails[i]]
    ELSE guardrails

ApplyDisabled(guardrails, config) ==
    IF Truthy(config.disabled) /\ IsArray(config.disabled)
    THEN [i \in DOMAIN guardrails |->
            IF IsDisabled(guardrails[i], config.disabled.a)
            THEN [guardrails[i] EXCEPT !.enabled = FALSE]
            ELSE guardrails[i]]
    ELSE guardrails

CustomGuardrail(custom) ==
    LET description == Prop(custom, "description")
        severity    == Prop(custom, "severity")
        enabled     == Prop(custom, "enabled")
    IN  [id          |-> Prop(custom, "id").n,
         name        |-> Prop(custom, "name").s,
         description |-> IF Truthy(description) THEN description.s ELSE "",
         severity    |-> IF Truthy(severity) THEN severity.s ELSE "medium",
         enabled     |-> IF enabled.t \in {"undefined", "null"} THEN TRUE ELSE enabled.b]

AddCustom(guardrails, config) ==
    IF Truthy(config.custom) /\ IsArray(config.custom)
    THEN Const(SelectSeq(config.custom.a,
                         LAMBDA c : Truthy(Prop(c, "id")) /\ Truthy(Prop(c, "name"))),
               LAMBDA pushed : guardrails \o [i \in DOMAIN pushed |-> CustomGuardrail(pushed[i])])
    ELSE guardrails

ApplySelectedIdsFilterOnly(guardrails, config) ==
    IF Truthy(config.selected_ids) /\ IsArray(config.selected_ids)
    THEN LET ids == [i \in DOMAIN config.selected_ids.a |-> config.selected_ids.a[i].n]
         IN  SelectSeq(guardrails, LAMBDA g : Includes(ids, g.id))
    ELSE guardrails

ApplySelectedIds(guardrails, config) ==
    IF Truthy(config.selected_ids) /\ IsArray(config.selected_ids)
    THEN LET ids == [i \in DOMAIN config.selected_ids.a |-> config.selected_ids.a[i].n]
         IN  Const(SelectSeq(guardrails, LAMBDA g : Includes(ids, g.id)), LAMBDA filtered :
                 \* new Map(pairs): the last pair of a key gives its value
                 LET ById(id) == filtered[Max({i \in DOMAIN filtered : filtered[i].id = id})]
                 IN  Const(SelectSeq(ids, LAMBDA id : \E i \in DOMAIN filtered :
                                                         filtered[i].id = id),
                           LAMBDA present : [i \in DOMAIN present |-> ById(present[i])]))
    ELSE guardrails

NoError == [kind |-> "none"]

SchemaError(workspacePath, errors) ==
    [kind |-> "schema", wsDisplay |-> Basename(workspacePath),
     workspacePath |-> workspacePath, errors |-> errors]

ParseError(workspacePath) ==
    [kind |-> "parse", wsDisplay |-> Basename(workspacePath),
     workspacePath |-> workspacePath, errors |-> <<>>]

\* validation that skips the check of the disabled list
ValidationErrorsSkipDisabled(config) ==
    ValidatePreset(config) \o ValidateOverrides(config)
        \o ValidateCustom(config) \o ValidateSelectedIds(config)

ValidationErrors(config) == validateGuardrailConfig(config)

\* the layers applied to a well-formed document, in the order of the code
ResolveDocument(doc) ==
    Const(ApplyPreset(CORE_GUARDRAILS, doc), LAMBDA withPreset :
    Const(ApplyOverrides(withPreset, doc), LAMBDA overridden :
    Const(ApplyDisabled(overridden, doc), LAMBDA disabled :
    Const(AddCustom(disabled, doc), LAMBDA withCustom :
          ApplySelectedIds(withCustom, doc)))))

\* doc: what the file system holds at path.join(workspacePath, guardrailsFileName).
\* Result: the rule-set, the preset, and the parse error shown (showParseError).
loadGuardrailsForWorkspace(workspacePath, doc) ==
    LET core == CORE_GUARDRAILS
    IN  CASE doc.kind = "absent" ->
               [guardrails |-> core, preset |-> Undefined, error |-> NoError]
          [] doc.kind = "throws" ->
               [guardrails |-> core, preset |-> Undefined, error |-> ParseError(workspacePath)]
          [] doc.kind = "empty" ->
               [guardrails |-> core, preset |-> Undefined, error |-> NoError]
          [] OTHER ->
               Const(ValidationErrors(doc), LAMBDA validationErrors :
                   IF Len(validationErrors) > 0
                   THEN [guardrails |-> core, preset |-> Undefined,
                         error |-> SchemaError(workspacePath, validationErrors)]
                   ELSE IF PresetLookupThrows(doc)
                   THEN [guardrails |-> core, preset |-> doc.preset,
                         error |-> ParseError(workspacePath)]
                   ELSE [guardrails |-> ResolveDocument(doc),
                         preset |-> doc.preset,
                         error |-> NoError])

\* ------------------------------------------------------------------------
\* Document scanner (parseGuardrailCoverageForWorkspace)
\* ------------------------------------------------------------------------

LowerCase ==
    <<"a", "b", "c", "d", "e", "f", "g", "h", "i", "j", "k", "l", "m",
      "n", "o", "p", "q", "r", "s", "t", "u", "v", "w", "x", "y", "z">>

UpperCase ==
    <<"A", "B", "C", "D", "E", "F", "G", "H", "I", "J", "K", "L", "M",
      "N", "O", "P", "Q", "R", "S", "T", "U", "V", "W", "X", "Y", "Z">>

ToUpperChar(c) ==
    IF \E i \in DOMAIN LowerCase : LowerCase[i] = c
    THEN UpperCase[CHOOSE i \in DOMAIN LowerCase : LowerCase[i] = c]
    ELSE c

\* String.prototype.toUpperCase
ToUpperCase(text) == [i \in DOMAIN text |-> ToUpperChar(text[i])]

IsSpace(c) == c \in {" ", "\t"}

\* String.prototype.trim
Trim(text) ==
    IF \A i \in DOMAIN text : IsSpace(text[i]) THEN <<>>
    ELSE LET first == CHOOSE i \in DOMAIN text :
                          ~IsSpace(text[i]) /\ \A j \in 1..(i - 1) : IsSpace(text[j])
             last  == CHOOSE i \in DOMAIN text :
                          ~IsSpace(text[i]) /\ \A j \in (i + 1)..Len(text) : IsSpace(text[j])
         IN  SubSeq(text, first, last)

StartsWith(text, prefix) ==
    Len(text) >= Len(prefix) /\ SubSeq(text, 1, Len(prefix)) = prefix

\* text.split('-').slice(1).join('-'): what follows the first hyphen
AfterFirstHyphen(text) ==
    LET h == CHOOSE i \in DOMAIN text : text[i] = "-" /\ \A j \in 1..(i - 1) : text[j] # "-"
    IN  SubSeq(text, h + 1, Len(text))

T_DONE == <<"D", "O", "N", "E">>

T_NA == <<"N", "A">>

T_N_A == <<"N", "/", "A">>

T_NOT_APPLICABLE ==
    <<"N", "O", "T", " ", "A", "P", "P", "L", "I", "C", "A", "B", "L", "E">>

T_PARTIAL == <<"P", "A", "R", "T", "I", "A", "L">>

T_IN_PROGRESS == <<"I", "N", " ", "P", "R", "O", "G", "R", "E", "S", "S">>

NoJustification == [defined |-> FALSE]

Justification(text) == [defined |-> TRUE, text |-> text]

\* the cell is compared as written, without toUpperCase
ParseStatusCellAsWritten(cell) ==
    Const(Trim(cell), LAMBDA rawStatusText :
        IF rawStatusText = T_DONE
        THEN [status |-> "done", justification |-> NoJustification]
        ELSE IF \/ StartsWith(rawStatusText, T_N_A)
                \/ rawStatusText = T_NA
                \/ rawStatusText = T_NOT_APPLICABLE
        THEN [status |-> "n/a",
              justification |->
                 IF Includes(rawStatusText, "-")
                 THEN Justification(Trim(AfterFirstHyphen(rawStatusText)))
                 ELSE NoJustification]
        ELSE IF rawStatusText = T_PARTIAL \/ rawStatusText = T_IN_PROGRESS
        THEN [status |-> "partial", justification |-> NoJustification]
        ELSE [status |-> "todo", justification |-> NoJustification])

\* status and justification of one status cell (match[3] of the row pattern)
ParseStatusCell(cell) ==
    Const(Trim(cell), LAMBDA rawStatusText :
    Const(ToUpperCase(rawStatusText), LAMBDA statusText :
        IF statusText = T_DONE
        THEN [status |-> "done", justification |-> NoJustification]
        ELSE IF \/ StartsWith(statusText, T_N_A)
                \/ statusText = T_NA
                \/ statusText = T_NOT_APPLICABLE
        THEN [status |-> "n/a",
              justification |->
                 IF Includes(rawStatusText, "-")
                 THEN Justification(Trim(AfterFirstHyphen(rawStatusText)))
                 ELSE NoJustification]
        ELSE IF statusText = T_PARTIAL \/ statusText = T_IN_PROGRESS
        THEN [status |-> "partial", justification |-> NoJustification]
        ELSE [status |-> "todo", justification |-> NoJustification]))

NewCoverage(g) ==
    [guardrail |-> g, coveredBy |-> <<>>, specCoverage |-> <<>>,
     status |-> "not-covered", justifications |-> <<>>]

\* a later row of the same rule and specification replaces the entry
ParseRowLastKept(specName, row, workspaceCoverage) ==
    Const(ParseStatusCell(row.status), LAMBDA parsed :
    Const(FindIndex(workspaceCoverage, LAMBDA cov : cov.guardrail.id = row.id), LAMBDA c :
        IF c = 0 THEN workspaceCoverage
        ELSE Const(SelectSeq(workspaceCoverage[c].specCoverage,
                             LAMBDA e : e.specName # specName), LAMBDA others :
             [workspaceCoverage EXCEPT ![c] =
                 [@ EXCEPT !.specCoverage =
                     Append(others, [specName |-> specName,
                                     status |-> parsed.status,
                                     justification |-> parsed.justification])]])))

\* the body of the while loop for one matched row [id, status]
ParseRow(specName, row, workspaceCoverage) ==
    Const(ParseStatusCell(row.status), LAMBDA parsed :
    Const(FindIndex(workspaceCoverage, LAMBDA cov : cov.guardrail.id = row.id), LAMBDA c :
        LET status == parsed.status
            justification == parsed.justification
        IN  IF c = 0 THEN workspaceCoverage
            ELSE IF \E i \in DOMAIN workspaceCoverage[c].specCoverage :
                       workspaceCoverage[c].specCoverage[i].specName = specName
            THEN workspaceCoverage
            ELSE [workspaceCoverage EXCEPT ![c] =
                    [@ EXCEPT
                       !.specCoverage = Append(@, [specName |-> specName,
                                                   status |-> status,
                                                   justification |-> justification]),
                       !.coveredBy =
                           IF status = "done" /\ ~Includes(@, specName)
                           THEN Append(@, specName) ELSE @,
                       !.justifications =
                           IF /\ status = "n/a"
                              /\ justification.defined
                              /\ justification.text # <<>>
                           THEN Append(@, justification.text) ELSE @]]))

\* the rows of content from row i on
RECURSIVE ParseRowsFrom(_, _, _, _)
ParseRowsFrom(specName, content, i, workspaceCoverage) ==
    IF i > Len(content) THEN workspaceCoverage
    ELSE Const(ParseRow(specName, content[i], workspaceCoverage), LAMBDA next :
             ParseRowsFrom(specName, content, i + 1, next))

\* a row of a rule the root does not have opens a coverage entry for it
parseGuardrailCoverageForWorkspaceAddingUnknown(specName, content, workspaceCoverage) ==
    Const(SelectSeq(content, LAMBDA row :
              ~\E c \in DOMAIN workspaceCoverage : workspaceCoverage[c].guardrail.id = row.id),
          LAMBDA unknown :
          ParseRowsFrom(specName, content, 1,
              workspaceCoverage \o
              [i \in DOMAIN unknown |->
                  NewCoverage(Guardrail(unknown[i].id, "", "", "medium"))]))

\* content: the rows of the document that match matrixPattern, in order
parseGuardrailCoverageForWorkspace(specName, content, workspaceCoverage) ==
    ParseRowsFrom(specName, content, 1, workspaceCoverage)

\* ------------------------------------------------------------------------
\* GuardrailTreeProvider
\*
\* self: the fields of the provider, plus `shown`, the warnings the last
\*       operation showed (vscode.window.showWarningMessage), in order.
\* env:  what the provider reads from outside: the active project
\*       (getActiveProject), the ldf.primaryGuardrailWorkspace setting and the
\*       files under each root.
\* ------------------------------------------------------------------------

\* default of the ldf.guardrailsFile setting
GuardrailsFileName == <<".ldf", "guardrails.yaml">>

NullProject == [null |-> TRUE]

ActiveProject(p) == [null |-> FALSE, alias |-> Basename(p), path |-> p, name |-> Basename(p)]

WorkspaceEntry(p) == [path |-> p, name |-> Basename(p)]

setWorkspacePaths(self, paths) ==
    [self EXCEPT !.workspacePaths = [i \in DOMAIN paths |-> WorkspaceEntry(paths[i])]]

RECURSIVE ConcatFrom(_, _)
ConcatFrom(ss, i) == IF i > Len(ss) THEN <<>> ELSE ss[i] \o ConcatFrom(ss, i + 1)

\* the concatenation of a sequence of sequences
Concat(ss) == Const(ss, LAMBDA v : ConcatFrom(v, 1))

RECURSIVE MinFrom(_, _, _)
MinFrom(s, i, acc) ==
    IF i > Len(s) THEN acc ELSE MinFrom(s, i + 1, IF s[i] < acc THEN s[i] ELSE acc)

RECURSIVE MaxFrom(_, _, _)
MaxFrom(s, i, acc) ==
    IF i > Len(s) THEN acc ELSE MaxFrom(s, i + 1, IF s[i] > acc THEN s[i] ELSE acc)

\* the distinct numbers of a sequence in ascending order
\* (the keys of guardrailMap after sort((a, b) => a.id - b.id))
SortedIds(idSeq) ==
    Const(idSeq, LAMBDA ids :
        IF ids = <<>> THEN <<>>
        ELSE Const(MinFrom(ids, 2, ids[1]), LAMBDA lo :
             Const(MaxFrom(ids, 2, ids[1]), LAMBDA hi :
             Const(Range(ids), LAMBDA idSet :
                   SelectSeq([k \in 1..(hi - lo + 1) |-> lo + k - 1],
                             LAMBDA x : x \in idSet)))))

\* only presets that name a bundle of PRESET_GUARDRAILS are collected
UniquePresetsKnown(presetsPerWorkspace) ==
    Const(SelectSeq(MapValues(presetsPerWorkspace),
                    LAMBDA p : p # Undefined /\ p.s \in PresetNames), LAMBDA defined :
    Const(SelectSeq([i \in DOMAIN defined |-> i],
                    LAMBDA i : \A j \in 1..(i - 1) : defined[j] # defined[i]), LAMBDA firsts :
          [i \in DOMAIN firsts |-> defined[firsts[i]].s]))

\* check 1 of checkForConflictingConfigs: the distinct defined presets, in first-seen order
UniquePresets(presetsPerWorkspace) ==
    Const(SelectSeq(MapValues(presetsPerWorkspace), LAMBDA p : p # Undefined), LAMBDA defined :
    Const(SelectSeq([i \in DOMAIN defined |-> i],
                    LAMBDA i : \A j \in 1..(i - 1) : defined[j] # defined[i]), LAMBDA firsts :
          [i \in DOMAIN firsts |-> defined[firsts[i]].s]))

\* every rule of every root, in the iteration order of check 2
AllGuardrails(guardrailsPerWorkspace) ==
    Concat([w \in DOMAIN guardrailsPerWorkspace |->
               [i \in DOMAIN guardrailsPerWorkspace[w].v |->
                   [g |-> guardrailsPerWorkspace[w].v[i],
                    workspaceDisplay |-> Basename(guardrailsPerWorkspace[w].k),
                    workspacePath |-> guardrailsPerWorkspace[w].k]]])

\* check 2: one entry per rule that differs from the first-seen rule of its id
IdConflicts(guardrailsPerWorkspace) ==
    Const(AllGuardrails(guardrailsPerWorkspace), LAMBDA all :
        LET Existing(n) == all[Min({j \in 1..n : all[j].g.id = all[n].g.id})]
        IN  Const(SelectSeq([n \in DOMAIN all |-> n],
                            LAMBDA n : \/ Existing(n).g.name # all[n].g.name
                                       \/ Existing(n).g.severity # all[n].g.severity),
                  LAMBDA conflicting :
                      [c \in DOMAIN conflicting |->
                          [id |-> all[conflicting[c]].g.id,
                           existingName |-> Existing(conflicting[c]).g.name,
                           existingDisplay |-> Existing(conflicting[c]).workspaceDisplay,
                           existingPath |-> Existing(conflicting[c]).workspacePath,
                           name |-> all[conflicting[c]].g.name,
                           workspaceDisplay |-> all[conflicting[c]].workspaceDisplay,
                           workspacePath |-> all[conflicting[c]].workspacePath]]))

\* the message of check 2: the first conflict as example; the number of
\* conflicts is part of the message only when there is more than one
IdConflictWarning(idConflicts) ==
    IF Len(idConflicts) = 1
    THEN [kind |-> "id-conflict", example |-> idConflicts[1]]
    ELSE [kind |-> "id-conflict", example |-> idConflicts[1], count |-> Len(idConflicts)]

\* the detector runs whatever the primary setting is
checkForConflictingConfigsIgnoringPrimary(self, primaryWorkspacePath) ==
    IF Len(self.workspacePaths) <= 1
    THEN <<>>
    ELSE Const(UniquePresets(self.presetsPerWorkspace), LAMBDA uniquePresets :
             IF Len(uniquePresets) > 1
             THEN << [kind |-> "presets", presets |-> uniquePresets] >>
             ELSE Const(IdConflicts(self.guardrailsPerWorkspace), LAMBDA idConflicts :
                      IF Len(idConflicts) > 0
                      THEN << IdConflictWarning(idConflicts) >>
                      ELSE <<>>))

\* check 1 does not return: check 2 reports as well
checkForConflictingConfigsBothChecks(self, primaryWorkspacePath) ==
    IF Len(self.workspacePaths) <= 1 \/ primaryWorkspacePath # <<>>
    THEN <<>>
    ELSE Const(UniquePresets(self.presetsPerWorkspace), LAMBDA uniquePresets :
         Const(IdConflicts(self.guardrailsPerWorkspace), LAMBDA idConflicts :
             (IF Len(uniquePresets) > 1
              THEN << [kind |-> "presets", presets |-> uniquePresets] >>
              ELSE <<>>)
             \o (IF Len(idConflicts) > 0
                 THEN << IdConflictWarning(idConflicts) >>
                 ELSE <<>>)))

\* the warnings checkForConflictingConfigs shows
checkForConflictingConfigs(self, primaryWorkspacePath) ==
    IF Len(self.workspacePaths) <= 1 \/ primaryWorkspacePath # <<>>
    THEN <<>>
    ELSE Const(UniquePresets(self.presetsPerWorkspace), LAMBDA uniquePresets :
             IF Len(uniquePresets) > 1
             THEN << [kind |-> "presets", presets |-> uniquePresets] >>
             ELSE Const(IdConflicts(self.guardrailsPerWorkspace), LAMBDA idConflicts :
                      IF Len(idConflicts) > 0
                      THEN << IdConflictWarning(idConflicts) >>
                      ELSE <<>>))

\* one iteration of the loading loop of loadGuardrails, keyed by the folder name
LoadWorkspaceByName(self, env, workspace) ==
    Const(loadGuardrailsForWorkspace(workspace.path, env.configFiles[workspace.path]),
          LAMBDA r :
      [self EXCEPT
         !.guardrailsFilePathPerWorkspace =
             MapSet(@, <<workspace.name>>, PathJoin(workspace.path, GuardrailsFileName)),
         !.lastParseError = IF r.error = NoError THEN @ ELSE r.error,
         !.shown = IF r.error = NoError THEN @ ELSE Append(@, r.error),
         !.guardrailsPerWorkspace = MapSet(@, <<workspace.name>>, r.guardrails),
         !.presetsPerWorkspace = MapSet(@, <<workspace.name>>, r.preset)])

\* one iteration of the loading loop of loadGuardrails
LoadWorkspace(self, env, workspace) ==
    Const(loadGuardrailsForWorkspace(workspace.path, env.configFiles[workspace.path]),
          LAMBDA r :
      [self EXCEPT
         !.guardrailsFilePathPerWorkspace =
             MapSet(@, workspace.path, PathJoin(workspace.path, GuardrailsFileName)),
         !.lastParseError = IF r.error = NoError THEN @ ELSE r.error,
         !.shown = IF r.error = NoError THEN @ ELSE Append(@, r.error),
         !.guardrailsPerWorkspace = MapSet(@, workspace.path, r.guardrails),
         !.presetsPerWorkspace = MapSet(@, workspace.path, r.preset)])

RECURSIVE LoadWorkspacesFrom(_, _, _, _)
LoadWorkspacesFrom(self, env, workspacesToLoad, i) ==
    IF i > Len(workspacesToLoad) THEN self
    ELSE Const(LoadWorkspace(self, env, workspacesToLoad[i]), LAMBDA next :
             LoadWorkspacesFrom(next, env, workspacesToLoad, i + 1))

RECURSIVE SetForAllFrom(_, _, _, _)
SetForAllFrom(m, workspaces, i, v) ==
    IF i > Len(workspaces) THEN m
    ELSE Const(MapSet(m, workspaces[i].path, v), LAMBDA next :
             SetForAllFrom(next, workspaces, i + 1, v))

\* the workspaces whose configuration document is resolved
WorkspacesToLoad(self, env) ==
    LET activeProject == env.activeProject
        primaryWorkspacePath == env.primaryGuardrailWorkspace
        p == FindIndex(self.workspacePaths, LAMBDA w : w.path = primaryWorkspacePath)
    IN  IF activeProject.null /\ primaryWorkspacePath # <<>> /\ p # 0
        THEN << self.workspacePaths[p] >>
        ELSE IF ~activeProject.null
        THEN SelectSeq(self.workspacePaths, LAMBDA w : w.path = activeProject.path)
        ELSE self.workspacePaths

\* the flat array keeps the last-seen rule of an id
FlatGuardrailsLastSeen(guardrailsPerWorkspace) ==
    Const(Concat(MapValues(guardrailsPerWorkspace)), LAMBDA all :
    Const(SortedIds([i \in DOMAIN all |-> all[i].id]), LAMBDA ids :
          [n \in DOMAIN ids |-> all[Max({i \in DOMAIN all : all[i].id = ids[n]})]]))

\* union of all rule-sets, first-seen rule per id, sorted by id
FlatGuardrails(guardrailsPerWorkspace) ==
    Const(Concat(MapValues(guardrailsPerWorkspace)), LAMBDA all :
    Const(SortedIds([i \in DOMAIN all |-> all[i].id]), LAMBDA ids :
          [n \in DOMAIN ids |-> all[Min({i \in DOMAIN all : all[i].id = ids[n]})]]))

\* the block hands the rule-set to the loaded workspaces only
SharePrimaryToLoaded(self, primaryWorkspacePath, workspacesToLoad) ==
    IF /\ primaryWorkspacePath # <<>>
       /\ Len(workspacesToLoad) = 1
       /\ MapHas(self.guardrailsPerWorkspace, workspacesToLoad[1].path)
    THEN [self EXCEPT !.guardrailsPerWorkspace =
             SetForAllFrom(@, workspacesToLoad, 1,
                           MapGet(self.guardrailsPerWorkspace, workspacesToLoad[1].path))]
    ELSE self

\* the "apply the primary's guardrails to all workspaces" block
SharePrimary(self, primaryWorkspacePath, workspacesToLoad) ==
    IF /\ primaryWorkspacePath # <<>>
       /\ Len(workspacesToLoad) = 1
       /\ MapHas(self.guardrailsPerWorkspace, workspacesToLoad[1].path)
    THEN [self EXCEPT !.guardrailsPerWorkspace =
             SetForAllFrom(@, self.workspacePaths, 1,
                           MapGet(self.guardrailsPerWorkspace, workspacesToLoad[1].path))]
    ELSE self

loadGuardrails(self, env) ==
    Const([self EXCEPT !.guardrailsPerWorkspace = MapClear(@),
                       !.guardrailsFilePathPerWorkspace = MapClear(@),
                       !.presetsPerWorkspace = MapClear(@),
                       !.lastParseError = NoError], LAMBDA cleared :
    Const(WorkspacesToLoad(cleared, env), LAMBDA workspacesToLoad :
    Const(LoadWorkspacesFrom(cleared, env, workspacesToLoad, 1), LAMBDA loaded :
    Const(SharePrimary(loaded, env.primaryGuardrailWorkspace, workspacesToLoad), LAMBDA shared :
    Const([shared EXCEPT
              !.guardrails = FlatGuardrails(shared.guardrailsPerWorkspace),
              !.guardrailsFilePath =
                  IF Len(shared.workspacePaths) > 0
                  THEN PathJoin(shared.workspacePaths[1].path, GuardrailsFileName)
                  ELSE @], LAMBDA flat :
          [flat EXCEPT !.shown =
              @ \o checkForConflictingConfigs(flat, env.primaryGuardrailWorkspace)])))))

\* no directory / no file at the path
NoDir == [kind |-> "absent"]

\* the path exists (fs.existsSync) and reading it throws: readdirSync of a
\* directory without permission, readFileSync of a file without permission
\* or of a file removed after the existence check
Unreadable == [kind |-> "unreadable"]

\* a specs directory: entries are [name, isDirectory, requirements] in readdir order
SpecsDir(entries) == [kind |-> "dir", entries |-> entries]

\* requirements.md with the rows that match matrixPattern
Requirements(rows) == [kind |-> "file", rows |-> rows]

\* the loop over the spec directories, from entry i on
RECURSIVE ScanSpecsFrom(_, _, _)
ScanSpecsFrom(entries, i, workspaceCoverage) ==
    IF i > Len(entries) THEN workspaceCoverage
    ELSE Const(IF entries[i].isDirectory /\ entries[i].requirements.kind = "file"
               THEN parseGuardrailCoverageForWorkspace(
                        entries[i].name, entries[i].requirements.rows, workspaceCoverage)
               ELSE workspaceCoverage, LAMBDA next :
             ScanSpecsFrom(entries, i + 1, next))

\* the iteration of the per-workspace loop for this workspace throws:
\* readdirSync or readFileSync throws and analyzeCoverage catches nothing
WorkspaceThrows(env, workspace) ==
    LET d == env.specDirs[workspace.path]
    IN  \/ d.kind = "unreadable"
        \/ /\ d.kind = "dir"
           /\ \E i \in DOMAIN d.entries :
                 d.entries[i].isDirectory /\ d.entries[i].requirements.kind = "unreadable"

\* one iteration of the per-workspace loop of analyzeCoverage
WorkspaceCoverage(self, env, workspace) ==
    Const(IF MapHas(self.guardrailsPerWorkspace, workspace.path)
          THEN MapGet(self.guardrailsPerWorkspace, workspace.path)
          ELSE <<>>, LAMBDA guardrails :
    Const([i \in DOMAIN guardrails |-> NewCoverage(guardrails[i])], LAMBDA initial :
    Const(IF env.specDirs[workspace.path].kind = "dir"
          THEN ScanSpecsFrom(env.specDirs[workspace.path].entries, 1, initial)
          ELSE initial, LAMBDA scanned :
          [i \in DOMAIN scanned |->
              [scanned[i] EXCEPT !.status = calculateOverallStatus(scanned[i].specCoverage)]])))

\* the per-workspace loop from workspace i on; the loop ends at the first
\* workspace whose scan throws
RECURSIVE AnalyzeWorkspacesFrom(_, _, _, _)
AnalyzeWorkspacesFrom(self, env, workspacesToAnalyze, i) ==
    IF i > Len(workspacesToAnalyze) THEN self
    ELSE IF WorkspaceThrows(env, workspacesToAnalyze[i])
    THEN self
    ELSE Const([self EXCEPT !.coveragePerWorkspace =
                   MapSet(@, workspacesToAnalyze[i].path,
                          WorkspaceCoverage(self, env, workspacesToAnalyze[i]))],
               LAMBDA next : AnalyzeWorkspacesFrom(next, env, workspacesToAnalyze, i + 1))

\* the spec name without the folder name, whatever the number of roots
DisplayNameBare(isMultiRoot, workspacePath, specName) == specName

\* `${workspaceDisplay}/${specName}` in multi-root mode, the spec name otherwise
DisplayName(isMultiRoot, workspacePath, specName) ==
    IF isMultiRoot THEN <<Basename(workspacePath)>> \o specName ELSE specName

\* the spec entries pushed to the flat entry of rule id, in the order of the
\* nested loops over coveragePerWorkspace, its coverage entries and their specs
FlatSpecCoverage(self, id) ==
    LET isMultiRoot == Len(self.workspacePaths) > 1
        m == self.coveragePerWorkspace
    IN  Concat([w \in DOMAIN m |->
           Concat([c \in DOMAIN m[w].v |->
              IF m[w].v[c].guardrail.id = id
              THEN [s \in DOMAIN m[w].v[c].specCoverage |->
                      [specName |-> DisplayName(isMultiRoot, m[w].k,
                                                m[w].v[c].specCoverage[s].specName),
                       status   |-> m[w].v[c].specCoverage[s].status]]
              ELSE <<>>])])

\* overall status of a flat entry taken from the per-root overall statuses:
\* covered as soon as one root reports the rule covered
FlatStatusFromRoots(self, id, specCoverage) ==
    LET m == self.coveragePerWorkspace
    IN  IF \E w \in DOMAIN m : \E c \in DOMAIN m[w].v :
              m[w].v[c].guardrail.id = id /\ m[w].v[c].status = "covered"
        THEN "covered"
        ELSE calculateOverallStatus(specCoverage)

\* the last loop of analyzeCoverage: the status of a flat entry
FlatStatus(self, id, specCoverage) == calculateOverallStatus(specCoverage)

\* the flat entry of rule g
FlatEntry(self, g) ==
    Const(FlatSpecCoverage(self, g.id), LAMBDA specCoverage :
    Const(SelectSeq(specCoverage, LAMBDA sc : sc.status = "done"), LAMBDA done :
          [guardrail      |-> g,
           coveredBy      |-> [k \in DOMAIN done |-> done[k].specName],
           specCoverage   |-> specCoverage,
           status         |-> FlatStatus(self, g.id, specCoverage),
           justifications |-> <<>>]))

FlatCoverage(self) == [i \in DOMAIN self.guardrails |-> FlatEntry(self, self.guardrails[i])]

\* the workspaces whose documents are scanned
WorkspacesToAnalyze(self, env) ==
    IF ~env.activeProject.null
    THEN SelectSeq(self.workspacePaths, LAMBDA w : w.path = env.activeProject.path)
    ELSE self.workspacePaths

\* an exception leaves the per-workspace loop of analyzeCoverage, and
\* refresh(), which catches nothing either
AnalysisThrows(self, env) ==
    \E w \in Range(WorkspacesToAnalyze(self, env)) : WorkspaceThrows(env, w)

\* when the loop throws, the flat coverage stays the one of the previous analysis
analyzeCoverage(self, env) ==
    Const([self EXCEPT !.coveragePerWorkspace = MapClear(@)], LAMBDA cleared :
    Const(WorkspacesToAnalyze(cleared, env), LAMBDA workspacesToAnalyze :
    Const(AnalyzeWorkspacesFrom(cleared, env, workspacesToAnalyze, 1), LAMBDA analyzed :
          IF AnalysisThrows(cleared, env) THEN analyzed
          ELSE [analyzed EXCEPT !.coverage = FlatCoverage(analyzed)])))

refresh(self, env) ==
    Const([self EXCEPT !.shown = <<>>], LAMBDA start :
    Const(loadGuardrails(start, env), LAMBDA loaded :
          analyzeCoverage(loaded, env)))

addWorkspaceFolder(self, env, folderPath) ==
    IF ~\E i \in DOMAIN self.workspacePaths : self.workspacePaths[i].path = folderPath
    THEN Const([self EXCEPT !.workspacePaths = Append(@, WorkspaceEntry(folderPath))],
               LAMBDA pushed : refresh(pushed, env))
    ELSE self

removeWorkspaceFolder(self, env, folderPath) ==
    Const([self EXCEPT !.workspacePaths = SelectSeq(@, LAMBDA w : w.path # folderPath)],
          LAMBDA filtered : refresh(filtered, env))

\* the fields of a provider before its constructor runs
FieldInitializers ==
    [workspacePaths |-> <<>>,
     guardrailsPerWorkspace |-> <<>>,
     coveragePerWorkspace |-> <<>>,
     guardrailsFilePathPerWorkspace |-> <<>>,
     presetsPerWorkspace |-> <<>>,
     guardrails |-> <<>>,
     coverage |-> <<>>,
     lastParseError |-> NoError,
     guardrailsFilePath |-> <<>>,
     shown |-> <<>>]

\* the provider after `new GuardrailTreeProvider(paths)`
NewProvider(paths, env) ==
    Const(setWorkspacePaths(FieldInitializers, paths), LAMBDA start :
          loadGuardrails(start, env))

\* ------------------------------------------------------------------------
\* Inputs of the model
\* ------------------------------------------------------------------------

\* the folder sets a workspace is opened with: two folders of the same
\* name, or two folders of different names
WorkspaceFolderSets ==
    { { <<"client-a", "app">>, <<"client-b", "app">> },
      { <<"client-a", "app">>, <<"work", "lib">> } }

\* lists of distinct folders of S
RootLists(S) == {s \in SeqsUpTo(S, Cardinality(S)) :
                    \A i, j \in DOMAIN s : i # j => s[i] # s[j]}

CfgSaas == ConfigDoc(JStr("saas"), Undefined, Undefined, Undefined, Undefined)

\* preset fintech, and rule 1 switched off by an override
CfgFintech ==
    ConfigDoc(JStr("fintech"),
              JObj(<< [k |-> "1", v |-> JObj(<< [k |-> "enabled", v |-> JBool(FALSE)] >>)] >>),
              Undefined, Undefined, Undefined)

\* `disabled` is not a list; preset and overrides are well-formed
CfgInvalid ==
    ConfigDoc(JStr("healthcare"),
              JObj(<< [k |-> "2", v |-> JObj(<< [k |-> "enabled", v |-> JBool(FALSE)] >>)] >>),
              JStr("Testing Coverage"), Undefined, Undefined)

C_TODO == <<"T", "O", "D", "O">>

C_done == <<"d", "o", "n", "e">>

C_NA_NOT_MULTI_TENANT ==
    <<"N", "/", "A", " ", "-", " ", "n", "o", "t", " ",
      "m", "u", "l", "t", "i", "-", "t", "e", "n", "a", "n", "t">>

Row(id, status) == [id |-> id, status |-> status]

SpecDirEntry(name, rows) ==
    [name |-> <<name>>, isDirectory |-> TRUE, requirements |-> Requirements(rows)]

\* a specification directory without requirements.md
DraftEntry(name) == [name |-> <<name>>, isDirectory |-> TRUE, requirements |-> NoDir]

\* a plain file in the specs directory
FileEntry(name) == [name |-> <<name>>, isDirectory |-> FALSE, requirements |-> NoDir]

TreeDone ==
    SpecsDir(<< SpecDirEntry("feature-x", << Row(1, T_DONE),
                                             Row(9, C_NA_NOT_MULTI_TENANT) >>) >>)

TreeTodo ==
    SpecsDir(<< SpecDirEntry("feature-x", << Row(1, C_TODO), Row(1, T_DONE),
                                             Row(14, T_PARTIAL), Row(99, T_DONE) >>) >>)

TreeMixed ==
    SpecsDir(<< DraftEntry("draft"),
                SpecDirEntry("feature-y", << Row(1, C_TODO), Row(3, C_done) >>),
                FileEntry("README.md"),
                SpecDirEntry("feature-z", << Row(3, C_TODO), Row(9, T_DONE) >>) >>)

\* what a root may hold: its guardrails.yaml and its specs directory
RootFiles ==
    { [config |-> CfgSaas,    specs |-> TreeDone],
      [config |-> CfgFintech, specs |-> TreeTodo],
      [config |-> CfgInvalid, specs |-> TreeMixed],
      [config |-> NoFile,     specs |-> NoDir] }

\* ------------------------------------------------------------------------
\* State
\* ------------------------------------------------------------------------

VARIABLES
    workspacePaths,                  \* provider fields
    guardrailsPerWorkspace,
    coveragePerWorkspace,
    guardrailsFilePathPerWorkspace,
    presetsPerWorkspace,
    guardrails,
    coverage,
    lastParseError,
    guardrailsFilePath,
    shown,                           \* warnings shown by the last operation
    activeProject,                   \* extension.ts: activeProject
    primaryGuardrailWorkspace,       \* setting ldf.primaryGuardrailWorkspace
    configFiles,                     \* workspace folder -> its guardrails.yaml
    specDirs,                        \* workspace folder -> its specs directory
    pc,                              \* "constructed", "refreshed" or "threw" ("idle": no provider loaded)
    call                             \* a function applied on its own: input and result

providerVars ==
    <<workspacePaths, guardrailsPerWorkspace, coveragePerWorkspace,
      guardrailsFilePathPerWorkspace, presetsPerWorkspace, guardrails, coverage,
      lastParseError, guardrailsFilePath, shown>>

fileVars == <<configFiles, specDirs>>

\* vscode.workspace.workspaceFolders: the folders of the opened workspace
Folders == DOMAIN configFiles

vars == <<providerVars, activeProject, primaryGuardrailWorkspace, fileVars, pc, call>>

Self ==
    [workspacePaths |-> workspacePaths,
     guardrailsPerWorkspace |-> guardrailsPerWorkspace,
     coveragePerWorkspace |-> coveragePerWorkspace,
     guardrailsFilePathPerWorkspace |-> guardrailsFilePathPerWorkspace,
     presetsPerWorkspace |-> presetsPerWorkspace,
     guardrails |-> guardrails,
     coverage |-> coverage,
     lastParseError |-> lastParseError,
     guardrailsFilePath |-> guardrailsFilePath,
     shown |-> shown]

EnvOf(active, primary) ==
    [activeProject |-> active, primaryGuardrailWorkspace |-> primary,
     configFiles |-> configFiles, specDirs |-> specDirs]

Env == EnvOf(activeProject, primaryGuardrailWorkspace)

Becomes(s) ==
    /\ workspacePaths' = s.workspacePaths
    /\ guardrailsPerWorkspace' = s.guardrailsPerWorkspace
    /\ coveragePerWorkspace' = s.coveragePerWorkspace
    /\ guardrailsFilePathPerWorkspace' = s.guardrailsFilePathPerWorkspace
    /\ presetsPerWorkspace' = s.presetsPerWorkspace
    /\ guardrails' = s.guardrails
    /\ coverage' = s.coverage
    /\ lastParseError' = s.lastParseError
    /\ guardrailsFilePath' = s.guardrailsFilePath
    /\ shown' = s.shown

\* after refresh(): "threw" when the exception reached the caller
Outcome(s, env) == IF AnalysisThrows(s, env) THEN "threw" ELSE "refreshed"

IsState(s) ==
    /\ workspacePaths = s.workspacePaths
    /\ guardrailsPerWorkspace = s.guardrailsPerWorkspace
    /\ coveragePerWorkspace = s.coveragePerWorkspace
    /\ guardrailsFilePathPerWorkspace = s.guardrailsFilePathPerWorkspace
    /\ presetsPerWorkspace = s.presetsPerWorkspace
    /\ guardrails = s.guardrails
    /\ coverage = s.coverage
    /\ lastParseError = s.lastParseError
    /\ guardrailsFilePath = s.guardrailsFilePath
    /\ shown = s.shown

NoCall == [fn |-> "none"]

\* ------------------------------------------------------------------------
\* The provider in its workspace
\* ------------------------------------------------------------------------

\* activate(): the provider is constructed over the workspace folders
Init ==
    /\ \E folders \in WorkspaceFolderSets : \E files \in [folders -> RootFiles] :
          /\ configFiles = [p \in folders |-> files[p].config]
          /\ specDirs = [p \in folders |-> files[p].specs]
    /\ activeProject = NullProject
    /\ primaryGuardrailWorkspace = <<>>
    /\ \E paths \in RootLists(Folders) :
          \E s \in {NewProvider(paths, EnvOf(NullProject, <<>>))} : IsState(s)
    /\ pc = "constructed"
    /\ call = NoCall

\* provider.refresh()
Refresh ==
    /\ \E self \in {Self}, env \in {Env} :
          \E s \in {refresh(self, env)} : Becomes(s) /\ pc' = Outcome(s, env)
    /\ UNCHANGED <<activeProject, primaryGuardrailWorkspace, fileVars, call>>

\* onDidChangeWorkspaceFolders, added folder: addWorkspaceFolder refreshes
AddWorkspaceFolder(folderPath) ==
    /\ ~\E i \in DOMAIN workspacePaths : workspacePaths[i].path = folderPath
    /\ \E self \in {Self}, env \in {Env} :
          \E s \in {addWorkspaceFolder(self, env, folderPath)} : Becomes(s) /\ pc' = Outcome(s, env)
    /\ UNCHANGED <<activeProject, primaryGuardrailWorkspace, fileVars, call>>

\* onDidChangeWorkspaceFolders, removed folder: removeWorkspaceFolder refreshes
RemoveWorkspaceFolder(folderPath) ==
    /\ \E self \in {Self}, env \in {Env} :
          \E s \in {removeWorkspaceFolder(self, env, folderPath)} : Becomes(s) /\ pc' = Outcome(s, env)
    /\ UNCHANGED <<activeProject, primaryGuardrailWorkspace, fileVars, call>>

\* initializeWorkspaceContext: setWorkspacePaths(projectPaths), then refreshAll()
SetWorkspacePaths(paths) ==
    /\ \E self \in {setWorkspacePaths(Self, paths)}, env \in {Env} :
          \E s \in {refresh(self, env)} : Becomes(s) /\ pc' = Outcome(s, env)
    /\ UNCHANGED <<activeProject, primaryGuardrailWorkspace, fileVars, call>>

\* extension.ts setActiveProject: sets the project, then refreshAll().
\* ldf.switchProject offers the projects of the workspace manifest, the paths
\* initializeWorkspaceContext handed to the providers.
SetActiveProject(project) ==
    /\ IF project.null THEN TRUE
       ELSE \E i \in DOMAIN workspacePaths : workspacePaths[i].path = project.path
    /\ activeProject' = project
    /\ \E self \in {Self}, env \in {EnvOf(project, primaryGuardrailWorkspace)} :
          \E s \in {refresh(self, env)} : Becomes(s) /\ pc' = Outcome(s, env)
    /\ UNCHANGED <<primaryGuardrailWorkspace, fileVars, call>>

\* command ldf.selectPrimaryGuardrailWorkspace: updates the setting, then refreshes
SelectPrimaryGuardrailWorkspace(selected) ==
    /\ Cardinality(Folders) >= 2
    /\ primaryGuardrailWorkspace' = selected
    /\ \E self \in {Self}, env \in {EnvOf(activeProject, selected)} :
          \E s \in {refresh(self, env)} : Becomes(s) /\ pc' = Outcome(s, env)
    /\ UNCHANGED <<activeProject, fileVars, call>>

Next ==
    \/ Refresh
    \/ \E p \in Folders : AddWorkspaceFolder(p)
    \/ \E p \in Folders : RemoveWorkspaceFolder(p)
    \/ \E paths \in RootLists(Folders) : SetWorkspacePaths(paths)
    \/ \E p \in Folders : SetActiveProject(ActiveProject(p))
    \/ SetActiveProject(NullProject)
    \/ \E p \in Folders \cup {<<>>} : SelectPrimaryGuardrailWorkspace(p)

Spec == Init /\ [][Next]_vars

\* ------------------------------------------------------------------------
\* calculateOverallStatus applied on its own
\* ------------------------------------------------------------------------

\* the spec entries of one rule with the given statuses
SpecCoverageOf(statuses) ==
    [i \in DOMAIN statuses |->
        [specName |-> <<DecStr(i)>>, status |-> statuses[i], justification |-> NoJustification]]

\* a provider without roots, before any load
Idle ==
    /\ IsState(FieldInitializers)
    /\ activeProject = NullProject
    /\ primaryGuardrailWorkspace = <<>>
    /\ configFiles = <<>>
    /\ specDirs = <<>>
    /\ pc = "idle"

InitReduce ==
    /\ Idle
    /\ \E statuses \in SeqsUpTo(SpecStatus, MaxRows) :
          call = [fn |-> "calculateOverallStatus", arg |-> SpecCoverageOf(statuses),
                  returned |-> FALSE, result |-> "none"]

CalculateOverallStatus ==
    /\ call.fn = "calculateOverallStatus"
    /\ ~call.returned
    /\ call' = [call EXCEPT !.returned = TRUE, !.result = calculateOverallStatus(call.arg)]
    /\ UNCHANGED <<providerVars, activeProject, primaryGuardrailWorkspace, fileVars, pc>>

NextReduce == CalculateOverallStatus

SpecReduce == InitReduce /\ [][NextReduce]_vars

\* the reduction policy of one rule over the statuses its spec entries carry
\* (n: how many entries, present: the statuses that occur among them)
ReductionPolicy(n, present) ==
    IF n = 0 THEN "not-covered"
    ELSE IF present = {"n/a"} THEN "not-applicable"
    ELSE IF "done" \in present /\ "todo" \notin present /\ "partial" \notin present
    THEN "covered"
    ELSE IF "partial" \in present \/ ("done" \in present /\ "todo" \in present)
    THEN "partial"
    ELSE "not-covered"

\* C1: calculateOverallStatus returns, for every list of per-spec statuses of
\* one rule, what the reduction policy gives for the statuses in it (empty:
\* not-covered; all n/a: not-applicable; done without todo and partial:
\* covered; partial, or done with todo: partial; otherwise not-covered), each
\* of the four "iff" holds, and every reordering of the list gives the same result.
C1_ReductionPolicy ==
    (call.fn = "calculateOverallStatus" /\ call.returned) =>
        LET S == call.arg
            present == {S[i].status : i \in DOMAIN S}
            r == call.result
        IN  /\ r = ReductionPolicy(Len(S), present)
            /\ Len(S) = 0 => r = "not-covered"
            /\ Len(S) > 0 => (r = "not-applicable" <=> \A i \in DOMAIN S : S[i].status = "n/a")
            /\ r = "covered" <=> /\ \E i \in DOMAIN S : S[i].status = "done"
                                 /\ \A i \in DOMAIN S : S[i].status \notin {"todo", "partial"}
            /\ r = "partial" <=> \/ \E i \in DOMAIN S : S[i].status = "partial"
                                 \/ /\ \E i \in DOMAIN S : S[i].status = "done"
                                    /\ \E i \in DOMAIN S : S[i].status = "todo"
            /\ \A p \in Permutations(DOMAIN S) :
                  calculateOverallStatus([i \in DOMAIN S |-> S[p[i]]]) = r

\* a list with done and n/a entries only was reduced to covered
C1_Witness ==
    /\ call.fn = "calculateOverallStatus"
    /\ call.returned
    /\ \E i \in DOMAIN call.arg : call.arg[i].status = "done"
    /\ \E i \in DOMAIN call.arg : call.arg[i].status = "n/a"
    /\ \A i \in DOMAIN call.arg : call.arg[i].status \in {"done", "n/a"}
    /\ call.result = "covered"

\* ------------------------------------------------------------------------
\* The rule-set resolver applied to configuration documents
\* ------------------------------------------------------------------------

EnabledIs(b) == JObj(<< [k |-> "enabled", v |-> JBool(b)] >>)

\* preset: absent, a bundle, `custom`, or a number (malformed)
ResolvePresets == {Undefined, JStr("saas"), JStr("custom"), JNum(7)}

\* overrides: absent, enabling rules 1, 9 and 99 and disabling rule 2, or a
\* string (malformed)
ResolveOverrides ==
    { Undefined,
      JObj(<< [k |-> "1", v |-> EnabledIs(TRUE)], [k |-> "2", v |-> EnabledIs(FALSE)],
              [k |-> "9", v |-> EnabledIs(TRUE)], [k |-> "99", v |-> EnabledIs(TRUE)] >>),
      JStr("all") }

\* disabled: absent, ids as numbers and as strings, names, a string or a list
\* with a boolean (malformed)
ResolveDisabled ==
    { Undefined,
      JArr(<< JNum(1), JStr("9"), JNum(99) >>),
      JArr(<< JStr("Testing Coverage"), JStr("Multi-Tenancy Isolation") >>),
      JStr("Testing Coverage"),
      JArr(<< JBool(TRUE) >>) }

\* custom: absent, a rule with a new id, a rule that reuses id 1, or a rule
\* whose id is a string (malformed)
ResolveCustom ==
    { Undefined,
      JArr(<< JObj(<< [k |-> "id", v |-> JNum(99)], [k |-> "name", v |-> JStr("Team Rule")] >>) >>),
      JArr(<< JObj(<< [k |-> "id", v |-> JNum(1)], [k |-> "name", v |-> JStr("House Tests")],
                      [k |-> "severity", v |-> JStr("low")] >>) >>),
      JArr(<< JObj(<< [k |-> "id", v |-> JStr("x")], [k |-> "name", v |-> JStr("Bad")] >>) >>) }

\* selected_ids: absent, a list of ids, or a list with a string (malformed)
ResolveSelected ==
    {Undefined, JArr(<< JStr("1") >>)}
        \cup {JArr([i \in DOMAIN ids |-> JNum(ids[i])]) : ids \in SeqsUpTo({1, 9, 99}, MaxSelected)}

ResolveDocs ==
    {NoFile, BadYaml, EmptyDoc}
        \cup {ConfigDoc(preset, overrides, disabled, custom, selected_ids) :
                 preset \in ResolvePresets, overrides \in ResolveOverrides,
                 disabled \in ResolveDisabled, custom \in ResolveCustom,
                 selected_ids \in ResolveSelected}

\* a workspace of two folders named `app`: the first holds the document the
\* resolver is applied to, the second a fintech configuration
InitResolve ==
    /\ \E doc \in ResolveDocs :
          configFiles = [p \in {<<"client-a", "app">>, <<"client-b", "app">>} |->
                            IF p = <<"client-a", "app">> THEN doc ELSE CfgFintech]
    /\ specDirs = [p \in {<<"client-a", "app">>, <<"client-b", "app">>} |->
                      IF p = <<"client-a", "app">> THEN TreeMixed ELSE TreeDone]
    /\ activeProject = NullProject
    /\ primaryGuardrailWorkspace = <<>>
    /\ \E s \in {NewProvider(<< <<"client-a", "app">>, <<"client-b", "app">> >>,
                             EnvOf(NullProject, <<>>))} : IsState(s)
    /\ pc = "constructed"
    /\ call = NoCall

NextResolve == Refresh

SpecResolve == InitResolve /\ [][NextResolve]_vars

\* the document of a root passed validation and was applied
Applied(doc) ==
    /\ doc.kind = "object"
    /\ validateGuardrailConfig(doc) = <<>>
    /\ ~PresetLookupThrows(doc)

\* the disabled list of the document names rule g: by its numeric id, by its
\* id as a string, or by its exact name
NamedInDisabled(doc, g) ==
    /\ doc.disabled.t = "array"
    /\ \E i \in DOMAIN doc.disabled.a :
          \/ doc.disabled.a[i] = JNum(g.id)
          \/ doc.disabled.a[i] = JStr(DecStr(g.id))
          \/ doc.disabled.a[i] = JStr(g.name)

\* g is one of the custom rules the document appends
IsCustomRuleOf(doc, g) ==
    /\ doc.custom.t = "array"
    /\ \E i \in DOMAIN doc.custom.a : g = CustomGuardrail(doc.custom.a[i])

\* the roots loaded in per-root mode, with their documents and rule-sets
LoadedRoots ==
    {w \in Range(workspacePaths) : MapHas(guardrailsPerWorkspace, w.path)}

RulesOf(w) == MapGet(guardrailsPerWorkspace, w.path)

\* C4 as stated: every rule of a resolved rule-set that the disabled list
\* names has enabled = false.
C4_DisabledEveryRule ==
    \A w \in LoadedRoots :
        Applied(configFiles[w.path]) =>
            \A i \in DOMAIN RulesOf(w) :
                NamedInDisabled(configFiles[w.path], RulesOf(w)[i]) => ~RulesOf(w)[i].enabled

\* C4, amended: every baseline or preset rule of a resolved rule-set that the
\* disabled list names (by numeric id, id as a string or exact name) has
\* enabled = false, also when overrides sets enabled: true for its id; a
\* custom rule keeps the enabled value of its own entry (true when absent).
C4_DisabledWinsOverOverrides ==
    \A w \in LoadedRoots :
        Applied(configFiles[w.path]) =>
            \A i \in DOMAIN RulesOf(w) :
                LET g == RulesOf(w)[i]
                IN  IF IsCustomRuleOf(configFiles[w.path], g)
                    THEN \E c \in Range(configFiles[w.path].custom.a) :
                            /\ g = CustomGuardrail(c)
                            /\ g.enabled = (Prop(c, "enabled") \in {Undefined, JBool(TRUE)})
                    ELSE NamedInDisabled(configFiles[w.path], g) => ~g.enabled

\* rules 1 and 9 are enabled by overrides and named in the disabled list, and
\* both are disabled in the resolved rule-set
C4_Witness ==
    \E w \in LoadedRoots :
        LET doc == configFiles[w.path]
        IN  /\ Applied(doc)
            /\ pc = "refreshed"
            /\ Prop(Prop(doc.overrides, "1"), "enabled") = JBool(TRUE)
            /\ Prop(Prop(doc.overrides, "9"), "enabled") = JBool(TRUE)
            /\ \E i, j \in DOMAIN RulesOf(w) :
                  /\ RulesOf(w)[i].id = 1 /\ RulesOf(w)[j].id = 9
                  /\ NamedInDisabled(doc, RulesOf(w)[i]) /\ NamedInDisabled(doc, RulesOf(w)[j])
                  /\ ~RulesOf(w)[i].enabled /\ ~RulesOf(w)[j].enabled

\* the rules accumulated before the selected_ids step: the document resolved
\* without its selected_ids field
Accumulated(doc) == ResolveDocument([doc EXCEPT !.selected_ids = Undefined])

SelectedIdsOf(doc) == [i \in DOMAIN doc.selected_ids.a |-> doc.selected_ids.a[i].n]

\* C5: when selected_ids is present, the ids of the resolved rule-set are the
\* ids of selected_ids that an accumulated rule carries, in the order of
\* selected_ids; every resolved rule is an accumulated rule, ids that match no
\* rule are skipped and no rule with an id outside selected_ids remains.
C5_SelectedIdsOrder ==
    \A w \in LoadedRoots :
        LET doc == configFiles[w.path]
        IN  (Applied(doc) /\ doc.selected_ids.t = "array") =>
                LET acc == Accumulated(doc)
                    matched == SelectSeq(SelectedIdsOf(doc),
                                         LAMBDA id : \E k \in DOMAIN acc : acc[k].id = id)
                IN  /\ [i \in DOMAIN RulesOf(w) |-> RulesOf(w)[i].id] = matched
                    /\ \A i \in DOMAIN RulesOf(w) :
                          /\ \E k \in DOMAIN acc : acc[k] = RulesOf(w)[i]
                          /\ Includes(SelectedIdsOf(doc), RulesOf(w)[i].id)
                    /\ \A id \in Range(SelectedIdsOf(doc)) :
                          (\A k \in DOMAIN acc : acc[k].id # id)
                              => \A i \in DOMAIN RulesOf(w) : RulesOf(w)[i].id # id

\* baseline and saas rules with selected_ids [9, 1] resolve to [rule 9, rule 1]
C5_Witness ==
    \E w \in LoadedRoots :
        LET doc == configFiles[w.path]
        IN  /\ Applied(doc)
            /\ pc = "refreshed"
            /\ doc.selected_ids = JArr(<< JNum(9), JNum(1) >>)
            /\ {1, 2, 3, 9} \subseteq {Accumulated(doc)[k].id : k \in DOMAIN Accumulated(doc)}
            /\ Len(RulesOf(w)) = 2
            /\ RulesOf(w)[1].id = 9 /\ RulesOf(w)[1].name = "Multi-Tenancy Isolation"
            /\ RulesOf(w)[2].id = 1

\* a root's document does not parse, or one of its fields has the wrong shape
Malformed(doc) ==
    \/ doc.kind = "throws"
    \/ /\ doc.kind = "object"
       /\ \/ doc.preset.t \notin {"undefined", "string"}
          \/ doc.overrides.t \notin {"undefined", "object", "array"}
          \/ \E e \in Range(Entries(doc.overrides)) : e.v.t \notin {"object", "array"}
          \/ doc.disabled.t \notin {"undefined", "array"}
          \/ /\ doc.disabled.t = "array"
             /\ \E d \in Range(doc.disabled.a) : d.t \notin {"number", "string"}
          \/ doc.custom.t \notin {"undefined", "array"}
          \/ /\ doc.custom.t = "array"
             /\ \E c \in Range(doc.custom.a) :
                   \/ c.t \notin {"object", "array"}
                   \/ Prop(c, "id").t # "number"
                   \/ Prop(c, "name").t # "string"
                   \/ /\ Prop(c, "severity") # Undefined
                      /\ Prop(c, "severity") \notin {JStr(s) : s \in Severities}
          \/ doc.selected_ids.t \notin {"undefined", "array"}
          \/ /\ doc.selected_ids.t = "array"
             /\ \E n \in Range(doc.selected_ids.a) : n.t # "number"

\* C6: a root whose document does not parse or has a malformed field keeps the
\* 8 baseline rules, all enabled, and no preset, and a diagnostic naming the
\* root is shown; the other root keeps the rule-set and preset of its own
\* (fintech) document.
C6_ValidationAtomicity ==
    \A w \in LoadedRoots :
        Malformed(configFiles[w.path]) =>
            /\ RulesOf(w) = CORE_GUARDRAILS
            /\ Len(RulesOf(w)) = 8
            /\ \A i \in DOMAIN RulesOf(w) : RulesOf(w)[i].enabled /\ RulesOf(w)[i].id = i
            /\ MapGet(presetsPerWorkspace, w.path) = Undefined
            /\ \E k \in DOMAIN shown :
                  /\ shown[k].kind \in {"schema", "parse"}
                  /\ shown[k].workspacePath = w.path
                  /\ shown[k].wsDisplay = w.name
            /\ \A v \in LoadedRoots :
                  configFiles[v.path] = CfgFintech =>
                      /\ [i \in DOMAIN RulesOf(v) |-> RulesOf(v)[i].id] = [i \in 1..15 |-> IF i <= 8 THEN i ELSE i + 5]
                      /\ ~RulesOf(v)[1].enabled
                      /\ MapGet(presetsPerWorkspace, v.path) = JStr("fintech")

\* `disabled` is a string while preset, overrides and custom are well-formed:
\* the root has the baseline and its neighbour the fintech rules
C6_Witness ==
    \E w \in LoadedRoots :
        LET doc == configFiles[w.path]
        IN  /\ doc.kind = "object"
            /\ pc = "refreshed"
            /\ doc.disabled = JStr("Testing Coverage")
            /\ doc.preset = JStr("saas")
            /\ doc.overrides.t = "object"
            /\ doc.custom # Undefined /\ Prop(doc.custom.a[1], "id") = JNum(99)
            /\ doc.selected_ids = JArr(<< JNum(9), JNum(1) >>)
            /\ RulesOf(w) = CORE_GUARDRAILS
            /\ \E v \in LoadedRoots : Len(RulesOf(v)) = 15

\* ------------------------------------------------------------------------
\* Properties of the provider in its workspace
\* ------------------------------------------------------------------------

\* no active project, and the primary setting names no root of the list:
\* every root is loaded from its own document
PerRootMode ==
    /\ activeProject.null
    /\ \A i \in DOMAIN workspacePaths : workspacePaths[i].path # primaryGuardrailWorkspace

\* a provider constructed over the single root p in the same file system, refreshed
Solo(p) ==
    Const(EnvOf(NullProject, <<>>), LAMBDA env :
    Const(NewProvider(<<p>>, env), LAMBDA constructed : refresh(constructed, env)))

\* the names of the spec directories under root p
SpecNamesUnder(p) ==
    IF specDirs[p].kind = "dir"
    THEN {specDirs[p].entries[k].name : k \in DOMAIN specDirs[p].entries}
    ELSE {}

\* C2: after a refresh in per-root mode, two roots with the same folder name
\* and different paths each have their own entry in guardrailsPerWorkspace,
\* presetsPerWorkspace, guardrailsFilePathPerWorkspace and coveragePerWorkspace,
\* each entry is what a provider over that root alone computes, and a root's
\* coverage names only specs found under that root.
C2_PathKeying ==
    (pc = "refreshed" /\ PerRootMode) =>
        \A i, j \in DOMAIN workspacePaths :
            (i # j /\ workspacePaths[i].name = workspacePaths[j].name) =>
                LET p == workspacePaths[i].path
                IN  /\ p # workspacePaths[j].path
                    /\ MapHas(guardrailsPerWorkspace, p)
                    /\ MapHas(presetsPerWorkspace, p)
                    /\ MapHas(guardrailsFilePathPerWorkspace, p)
                    /\ MapHas(coveragePerWorkspace, p)
                    /\ \E solo \in {Solo(p)} :
                          /\ MapGet(guardrailsPerWorkspace, p) = MapGet(solo.guardrailsPerWorkspace, p)
                          /\ MapGet(presetsPerWorkspace, p) = MapGet(solo.presetsPerWorkspace, p)
                          /\ MapGet(guardrailsFilePathPerWorkspace, p)
                                = MapGet(solo.guardrailsFilePathPerWorkspace, p)
                          /\ MapGet(coveragePerWorkspace, p) = MapGet(solo.coveragePerWorkspace, p)
                    /\ MapGet(guardrailsFilePathPerWorkspace, p) = p \o GuardrailsFileName
                    /\ \A c \in Range(MapGet(coveragePerWorkspace, p)) :
                          \A s \in Range(c.specCoverage) : s.specName \in SpecNamesUnder(p)

\* two roots named `app`, one with the saas and one with the fintech document,
\* hold different rule-sets, presets, file paths and coverage after a refresh
C2_Witness ==
    /\ pc = "refreshed"
    /\ PerRootMode
    /\ \E i, j \in DOMAIN workspacePaths :
          LET p == workspacePaths[i].path
              q == workspacePaths[j].path
          IN  /\ p # q
              /\ workspacePaths[i].name = "app" /\ workspacePaths[j].name = "app"
              /\ configFiles[p] = CfgSaas /\ configFiles[q] = CfgFintech
              /\ MapGet(presetsPerWorkspace, p) = JStr("saas")
              /\ MapGet(presetsPerWorkspace, q) = JStr("fintech")
              /\ Len(MapGet(guardrailsPerWorkspace, p)) = 13
              /\ Len(MapGet(guardrailsPerWorkspace, q)) = 15
              /\ MapGet(coveragePerWorkspace, p)[1].status = "covered"
              /\ MapGet(coveragePerWorkspace, q)[1].status = "not-covered"

\* the fields of the provider that a refresh rebuilds
Rebuilt(s) ==
    <<s.workspacePaths, s.guardrailsPerWorkspace, s.coveragePerWorkspace,
      s.guardrailsFilePathPerWorkspace, s.presetsPerWorkspace, s.guardrails,
      s.coverage, s.lastParseError, s.shown>>

\* the paths of the root list
CurrentPaths == [i \in DOMAIN workspacePaths |-> workspacePaths[i].path]

\* every key of the map is the path of a root of the list
KeysAreCurrent(m) == \A k \in DOMAIN m : Includes(CurrentPaths, m[k].k)

\* C3: in every state left by a refresh, a second refresh with the same roots,
\* settings and files changes nothing; the collections are those a provider
\* constructed afresh over the same roots computes (nothing accumulated); and
\* every key of the per-root maps and every rule of the flat view belongs to a
\* root of the current list.
C3_RefreshIdempotent ==
    pc = "refreshed" =>
        \E self \in {Self}, env \in {Env} :
            /\ refresh(self, env) = self
            /\ \E fresh \in {setWorkspacePaths(FieldInitializers, CurrentPaths)} :
                  Rebuilt(refresh(fresh, env)) = Rebuilt(self)
            /\ KeysAreCurrent(guardrailsPerWorkspace)
            /\ KeysAreCurrent(coveragePerWorkspace)
            /\ KeysAreCurrent(guardrailsFilePathPerWorkspace)
            /\ KeysAreCurrent(presetsPerWorkspace)
            /\ \A c \in Range(coverage) :
                  \E k \in DOMAIN guardrailsPerWorkspace :
                      \E g \in Range(guardrailsPerWorkspace[k].v) : g.id = c.guardrail.id

\* a root that had been loaded and scanned was removed, and the refresh that
\* followed left nothing of it
C3_Witness ==
    /\ pc = "refreshed"
    /\ Len(workspacePaths) = 1
    /\ Len(coveragePerWorkspace) = 1
    /\ \E p \in Folders :
          /\ p # workspacePaths[1].path
          /\ configFiles[p] = CfgFintech /\ specDirs[p] = TreeTodo
          /\ configFiles[workspacePaths[1].path] = CfgSaas
    /\ activeProject.null
    /\ \A c \in Range(coverage) : c.guardrail.id \notin 14..20

\* the rule ids of the effective rule-sets of all roots
EffectiveIds ==
    UNION { {guardrailsPerWorkspace[k].v[i].id : i \in DOMAIN guardrailsPerWorkspace[k].v} :
            k \in DOMAIN guardrailsPerWorkspace }

\* the first definition of rule id in the iteration order of the roots
FirstSeen(id) ==
    LET k == Min({k \in DOMAIN guardrailsPerWorkspace :
                     \E i \in DOMAIN guardrailsPerWorkspace[k].v :
                         guardrailsPerWorkspace[k].v[i].id = id})
        rules == guardrailsPerWorkspace[k].v
    IN  rules[Min({i \in DOMAIN rules : rules[i].id = id})]

\* C7: after a refresh the flat view has exactly one entry per rule id of the
\* roots' effective rule-sets, in ascending id order, each with the
\* definition of the first root that has the id; two roots named `app` with
\* the saas and the fintech document give the ids 1 to 20.
C7_FlatUnionById ==
    pc = "refreshed" =>
        /\ {coverage[n].guardrail.id : n \in DOMAIN coverage} = EffectiveIds
        /\ \A m, n \in DOMAIN coverage :
              m < n => coverage[m].guardrail.id < coverage[n].guardrail.id
        /\ \A n \in DOMAIN coverage : coverage[n].guardrail = FirstSeen(coverage[n].guardrail.id)
        /\ (/\ PerRootMode
            /\ \E i, j \in DOMAIN workspacePaths :
                  /\ workspacePaths[i].name = "app" /\ workspacePaths[j].name = "app"
                  /\ configFiles[workspacePaths[i].path] = CfgSaas
                  /\ configFiles[workspacePaths[j].path] = CfgFintech)
               => [n \in DOMAIN coverage |-> coverage[n].guardrail.id] = [n \in 1..20 |-> n]

\* the saas root precedes the fintech root, both named `app`: the flat view
\* has the 20 ids, and rule 1 is the saas root's (enabled) definition
C7_Witness ==
    /\ pc = "refreshed"
    /\ PerRootMode
    /\ Len(workspacePaths) = 2
    /\ workspacePaths[1].name = "app" /\ workspacePaths[2].name = "app"
    /\ configFiles[workspacePaths[1].path] = CfgSaas
    /\ configFiles[workspacePaths[2].path] = CfgFintech
    /\ Len(coverage) = 20
    /\ coverage[1].guardrail.enabled
    /\ ~MapGet(guardrailsPerWorkspace, workspacePaths[2].path)[1].enabled

\* the per-root spec entries of rule id, as <<root, coverage entry, spec entry>> indices
PerRootEntries(id) ==
    UNION { UNION { {<<k, c, s>> : s \in DOMAIN coveragePerWorkspace[k].v[c].specCoverage} :
                    c \in {c \in DOMAIN coveragePerWorkspace[k].v :
                              coveragePerWorkspace[k].v[c].guardrail.id = id} } :
            k \in DOMAIN coveragePerWorkspace }

PerRootEntry(e) == coveragePerWorkspace[e[1]].v[e[2]].specCoverage[e[3]]

\* the flat spec entry a per-root spec entry gives: `<folder name>/<specName>`
\* when the root list has more than one root, the bare name when it has one
ExpectedFlatEntry(e) ==
    [specName |-> IF Len(workspacePaths) > 1
                  THEN <<Basename(coveragePerWorkspace[e[1]].k)>> \o PerRootEntry(e).specName
                  ELSE PerRootEntry(e).specName,
     status |-> PerRootEntry(e).status]

\* C8: after a refresh every rule of a per-root coverage has a flat entry, and
\* the specCoverage of every flat entry holds the per-root spec entries of its
\* rule id from every root, each as often as it occurs (none dropped, none
\* merged, none added), with its status and the name `<folder name>/<specName>`
\* when more than one root is listed, the bare specName when one root is.
C8_FlatSpecEntries ==
    pc = "refreshed" =>
        /\ \A k \in DOMAIN coveragePerWorkspace : \A c \in Range(coveragePerWorkspace[k].v) :
              \E n \in DOMAIN coverage : coverage[n].guardrail.id = c.guardrail.id
        /\ \A n \in DOMAIN coverage :
              \E entries \in {PerRootEntries(coverage[n].guardrail.id)} :
                  /\ Len(coverage[n].specCoverage) = Cardinality(entries)
                  /\ \A i \in DOMAIN coverage[n].specCoverage :
                        \E e \in entries : coverage[n].specCoverage[i] = ExpectedFlatEntry(e)
                  /\ \A e \in entries :
                        Cardinality({i \in DOMAIN coverage[n].specCoverage :
                                        coverage[n].specCoverage[i] = ExpectedFlatEntry(e)})
                            = Cardinality({d \in entries : ExpectedFlatEntry(d) = ExpectedFlatEntry(e)})

\* roots `app` and `lib` both have a spec feature-x covering rule 1: the flat
\* entry of rule 1 lists app/feature-x and lib/feature-x with their statuses
C8_Witness ==
    /\ pc = "refreshed"
    /\ Len(workspacePaths) = 2
    /\ Len(coveragePerWorkspace) = 2
    /\ Len(coverage) > 0
    /\ coverage[1].guardrail.id = 1
    /\ coverage[1].specCoverage =
          << [specName |-> <<"app", "feature-x">>, status |-> "done"],
             [specName |-> <<"lib", "feature-x">>, status |-> "todo"] >>

\* C9: after a refresh the status of every flat entry is the reduction policy
\* applied to the statuses of the spec entries of its rule id in all roots
\* together.
C9_FlatStatusOverCombined ==
    pc = "refreshed" =>
        \A n \in DOMAIN coverage :
            \E entries \in {PerRootEntries(coverage[n].guardrail.id)} :
                coverage[n].status =
                    ReductionPolicy(Cardinality(entries),
                                    {PerRootEntry(e).status : e \in entries})

\* rule 1 is done in one root (covered there) and todo in the other
\* (not-covered there), and partial in the flat view
C9_Witness ==
    /\ pc = "refreshed"
    /\ Len(coveragePerWorkspace) = 2
    /\ coveragePerWorkspace[1].v[1].guardrail.id = 1
    /\ coveragePerWorkspace[2].v[1].guardrail.id = 1
    /\ coveragePerWorkspace[1].v[1].status = "covered"
    /\ coveragePerWorkspace[2].v[1].status = "not-covered"
    /\ coverage[1].guardrail.id = 1
    /\ coverage[1].status = "partial"

\* the primary setting names a root of the list
PrimaryIsActive == Includes(CurrentPaths, primaryGuardrailWorkspace)

\* C10: when the primary setting names a root of the list then, after a
\* refresh and whatever the active project is, every root's effective
\* rule-set is the rule-set resolved from the primary root's document, that
\* document is the only one resolved, and every root has a coverage computed
\* from its own specification documents.
C10_PrimaryRuleSetForAll ==
    (pc = "refreshed" /\ PrimaryIsActive) =>
        \E primary \in {loadGuardrailsForWorkspace(primaryGuardrailWorkspace,
                                                   configFiles[primaryGuardrailWorkspace])} :
            /\ MapKeys(presetsPerWorkspace) = <<primaryGuardrailWorkspace>>
            /\ MapKeys(guardrailsFilePathPerWorkspace) = <<primaryGuardrailWorkspace>>
            /\ \A w \in Range(workspacePaths) :
                  /\ MapHas(guardrailsPerWorkspace, w.path)
                  /\ MapGet(guardrailsPerWorkspace, w.path) = primary.guardrails
                  /\ MapHas(coveragePerWorkspace, w.path)
                  /\ \E self \in {Self}, env \in {Env} :
                        MapGet(coveragePerWorkspace, w.path) = WorkspaceCoverage(self, env, w)
                  /\ \A c \in Range(MapGet(coveragePerWorkspace, w.path)) :
                        \A s \in Range(c.specCoverage) : s.specName \in SpecNamesUnder(w.path)

\* C10 (amended): when the primary setting names a root of the list and no
\* active project is set then, after a refresh, every root's effective
\* rule-set is the rule-set resolved from the primary root's document, that
\* document is the only one resolved, and every root has a coverage over that
\* rule-set computed from its own specification documents.
C10_PrimaryWithoutActiveProject ==
    (pc = "refreshed" /\ PrimaryIsActive /\ activeProject.null) =>
        \E primary \in {loadGuardrailsForWorkspace(primaryGuardrailWorkspace,
                                                   configFiles[primaryGuardrailWorkspace])} :
            /\ MapKeys(presetsPerWorkspace) = <<primaryGuardrailWorkspace>>
            /\ MapKeys(guardrailsFilePathPerWorkspace) = <<primaryGuardrailWorkspace>>
            /\ MapGet(presetsPerWorkspace, primaryGuardrailWorkspace) = primary.preset
            /\ \A w \in Range(workspacePaths) :
                  /\ MapHas(guardrailsPerWorkspace, w.path)
                  /\ MapGet(guardrailsPerWorkspace, w.path) = primary.guardrails
                  /\ MapHas(coveragePerWorkspace, w.path)
                  /\ \E cov \in {MapGet(coveragePerWorkspace, w.path)} :
                        /\ [k \in DOMAIN cov |-> cov[k].guardrail] = primary.guardrails
                        /\ \E self \in {Self}, env \in {Env} :
                              cov = WorkspaceCoverage(self, env, w)
                        /\ \A c \in Range(cov) :
                              \A s \in Range(c.specCoverage) :
                                  s.specName \in SpecNamesUnder(w.path)

\* roots with the saas and the fintech document, the fintech root primary and
\* listed second, no active project: the saas root carries the fintech
\* rule-set and its own coverage of rule 1
C10_Witness ==
    /\ pc = "refreshed"
    /\ activeProject.null
    /\ Len(workspacePaths) = 2
    /\ workspacePaths[2].path = primaryGuardrailWorkspace
    /\ configFiles[workspacePaths[1].path] = CfgSaas
    /\ configFiles[workspacePaths[2].path] = CfgFintech
    /\ MapKeys(presetsPerWorkspace) = <<primaryGuardrailWorkspace>>
    /\ Len(MapGet(guardrailsPerWorkspace, workspacePaths[1].path)) = 15
    /\ ~MapGet(guardrailsPerWorkspace, workspacePaths[1].path)[1].enabled
    /\ MapGet(coveragePerWorkspace, workspacePaths[1].path)[1].status = "covered"
    /\ MapGet(coveragePerWorkspace, workspacePaths[2].path)[1].status = "not-covered"

\* ------------------------------------------------------------------------
\* The conflict detector over two roots
\* ------------------------------------------------------------------------

\* a preset name that names no bundle of PRESET_GUARDRAILS
CfgEnterprise == ConfigDoc(JStr("enterprise"), Undefined, Undefined, Undefined, Undefined)

CustomRule(id, name, severity) ==
    JObj(<< [k |-> "id", v |-> JNum(id)], [k |-> "name", v |-> JStr(name)],
            [k |-> "severity", v |-> JStr(severity)] >>)

\* preset `custom`; the root's only rule is a custom rule with id 1 and its
\* own name
CfgHouseOnly ==
    ConfigDoc(JStr("custom"), Undefined, Undefined,
              JArr(<< CustomRule(1, "House Tests", "critical") >>),
              JArr(<< JNum(1) >>))

\* the root's rules are custom rules 2 (the baseline name, another severity)
\* and 3 (another name)
CfgTwoCustom ==
    ConfigDoc(Undefined, Undefined, Undefined,
              JArr(<< CustomRule(2, "Security Basics", "low"),
                      CustomRule(3, "Errors", "high") >>),
              JArr(<< JNum(2), JNum(3) >>))

\* a custom rule reuses baseline id 1, no selected_ids
CfgReuse ==
    ConfigDoc(Undefined, Undefined, Undefined,
              JArr(<< CustomRule(1, "House Tests", "low") >>), Undefined)

ConflictDocs ==
    {NoFile, CfgSaas, CfgFintech, CfgEnterprise, CfgInvalid,
     CfgHouseOnly, CfgTwoCustom, CfgReuse}

\* what the ldf.primaryGuardrailWorkspace setting holds at activation: nothing,
\* or the path of a folder that has since left the workspace (the setting is
\* written by the picker only and outlives the folder)
PersistedPrimary == {<<>>, <<"client-c", "app">>}

\* a workspace of two folders named `app`, each with one of the documents
InitConflicts ==
    /\ \E files \in [{<<"client-a", "app">>, <<"client-b", "app">>} -> ConflictDocs] :
          configFiles = files
    /\ specDirs = [p \in {<<"client-a", "app">>, <<"client-b", "app">>} |-> NoDir]
    /\ activeProject = NullProject
    /\ primaryGuardrailWorkspace \in PersistedPrimary
    /\ \E paths \in RootLists(Folders) :
          \E s \in {NewProvider(paths, EnvOf(NullProject, primaryGuardrailWorkspace))} :
              IsState(s)
    /\ pc = "constructed"
    /\ call = NoCall

SpecConflicts == InitConflicts /\ [][Next]_vars

\* the warnings of the conflict detector among the warnings shown
ConflictWarnings == SelectSeq(shown, LAMBDA d : d.kind \in {"presets", "id-conflict"})

\* the distinct preset values the resolver returned for the loaded roots
PresetValues == Range(MapValues(presetsPerWorkspace)) \ {Undefined}

\* the rule occurrences of the effective rule-sets: root, position and rule
RuleOccurrences ==
    UNION {{[root |-> guardrailsPerWorkspace[w].k, at |-> i, g |-> guardrailsPerWorkspace[w].v[i]] :
               i \in DOMAIN guardrailsPerWorkspace[w].v} : w \in DOMAIN guardrailsPerWorkspace}

\* two occurrences of one id differ in name or severity
RulesDiffer ==
    \E x, y \in RuleOccurrences :
        x.g.id = y.g.id /\ (x.g.name # y.g.name \/ x.g.severity # y.g.severity)

\* C11: the conflict detector reports on a load of the rule-sets if and only
\* if the root list holds more than one root and the primary setting is
\* empty: then divergent presets, or else differing rules of one id, are
\* reported; with at most one root or with a primary setting no
\* preset-divergence and no rule-identity warning is shown.
C11_DetectorOnlyMultiRootNoPrimary ==
    IF Len(workspacePaths) > 1 /\ primaryGuardrailWorkspace = <<>>
    THEN /\ Cardinality(PresetValues) > 1
              => \E i \in DOMAIN ConflictWarnings : ConflictWarnings[i].kind = "presets"
         /\ (Cardinality(PresetValues) <= 1 /\ RulesDiffer)
              => \E i \in DOMAIN ConflictWarnings : ConflictWarnings[i].kind = "id-conflict"
         /\ (Cardinality(PresetValues) <= 1 /\ ~RulesDiffer) => ConflictWarnings = <<>>
    ELSE ConflictWarnings = <<>>

\* two roots with the saas and the fintech preset and a primary root: the
\* refresh shows no conflict warning
C11_Witness ==
    /\ pc = "refreshed"
    /\ Len(workspacePaths) = 2
    /\ activeProject.null
    /\ primaryGuardrailWorkspace = workspacePaths[1].path
    /\ configFiles[workspacePaths[1].path] = CfgSaas
    /\ configFiles[workspacePaths[2].path] = CfgFintech
    /\ ConflictWarnings = <<>>
    /\ shown = <<>>

\* the rule occurrences in the order the detector walks them: root by root
\* in map order, each root's rules in list order
WalkedOccurrences ==
    UNION {{[w |-> w, at |-> i, root |-> guardrailsPerWorkspace[w].k,
             g |-> guardrailsPerWorkspace[w].v[i]] :
               i \in DOMAIN guardrailsPerWorkspace[w].v} : w \in DOMAIN guardrailsPerWorkspace}

WalkedBefore(x, y) == x.w < y.w \/ (x.w = y.w /\ x.at < y.at)

\* the first occurrence walked of the id of x
FirstWalked(x) ==
    CHOOSE f \in WalkedOccurrences :
        /\ f.g.id = x.g.id
        /\ \A y \in WalkedOccurrences : y.g.id = x.g.id => (y = f \/ WalkedBefore(f, y))

\* the occurrences that differ from the first occurrence of their id
ConflictingOccurrences ==
    {x \in WalkedOccurrences :
        \/ x.g.name # FirstWalked(x).g.name
        \/ x.g.severity # FirstWalked(x).g.severity}

\* C12: one pass of the detector shows at most one warning; when the
\* presets diverge the warning is the preset warning and no rule-identity
\* warning is shown; a rule-identity warning cites the first conflict walked
\* and carries the number of conflicts exactly when there is more than one.
C12_AtMostOneWarning ==
    /\ Len(ConflictWarnings) <= 1
    /\ (Cardinality(PresetValues) > 1 /\ ConflictWarnings # <<>>)
          => ConflictWarnings[1].kind = "presets"
    /\ \A i \in DOMAIN ConflictWarnings :
          ConflictWarnings[i].kind = "id-conflict" =>
              \E d \in {ConflictWarnings[i]}, conflicts \in {ConflictingOccurrences} :
                  /\ Cardinality(PresetValues) <= 1
                  /\ conflicts # {}
                  /\ \E c \in conflicts :
                        /\ \A y \in conflicts : y = c \/ WalkedBefore(c, y)
                        /\ d.example.id = c.g.id
                        /\ d.example.name = c.g.name
                        /\ d.example.workspaceDisplay = Basename(c.root)
                        /\ d.example.existingName = FirstWalked(c).g.name
                        /\ d.example.existingDisplay = Basename(FirstWalked(c).root)
                  /\ ("count" \in DOMAIN d) <=> (Cardinality(conflicts) > 1)
                  /\ ("count" \in DOMAIN d) => d.count = Cardinality(conflicts)

\* a root with custom rules 2 and 3 walked before a root with the baseline
\* rules: one warning, citing rule 2 and counting two conflicts
C12_Witness ==
    /\ pc = "refreshed"
    /\ Len(workspacePaths) = 2
    /\ configFiles[workspacePaths[1].path] = CfgTwoCustom
    /\ configFiles[workspacePaths[2].path] = NoFile
    /\ Len(ConflictWarnings) = 1
    /\ ConflictWarnings[1].kind = "id-conflict"
    /\ ConflictWarnings[1].example.id = 2
    /\ ConflictWarnings[1].example.existingName = "Security Basics"
    /\ ConflictWarnings[1].example.name = "Security Basics"
    /\ ConflictWarnings[1].count = 2

\* the preset warning among the warnings shown, if any
PresetWarnings == SelectSeq(shown, LAMBDA d : d.kind = "presets")

\* C13 (as claimed): after a refresh a preset warning is shown if and only if
\* the resolver outputs of the loaded roots hold more than one distinct
\* defined preset.
C13_PresetWarningIffDivergent ==
    pc = "refreshed" =>
        ((PresetWarnings # <<>>) <=> (Cardinality(PresetValues) > 1))

\* C13 (amended): a preset warning is shown if and only if the primary
\* setting is empty and the resolver outputs of the loaded roots hold more
\* than one distinct defined preset; the warning names each distinct value
\* once; every loaded root's preset is the raw value its document gives
\* (a name of no bundle included), and undefined for a root without a valid
\* document.
C13_PresetWarningUnlessPrimary ==
    /\ (PresetWarnings # <<>>)
          <=> (primaryGuardrailWorkspace = <<>> /\ Cardinality(PresetValues) > 1)
    /\ \A i \in DOMAIN PresetWarnings :
          /\ Range(PresetWarnings[i].presets) = {p.s : p \in PresetValues}
          /\ Len(PresetWarnings[i].presets) = Cardinality(PresetValues)
    /\ \A w \in DOMAIN presetsPerWorkspace :
          LET doc == configFiles[presetsPerWorkspace[w].k]
          IN  presetsPerWorkspace[w].v =
                 IF doc.kind = "object" /\ doc # CfgInvalid THEN doc.preset ELSE Undefined

\* a root whose preset names no bundle next to a saas root: the warning
\* names both presets although the first added no rule
C13_Witness ==
    /\ pc = "refreshed"
    /\ Len(workspacePaths) = 2
    /\ configFiles[workspacePaths[1].path] = CfgEnterprise
    /\ configFiles[workspacePaths[2].path] = CfgSaas
    /\ Len(MapGet(guardrailsPerWorkspace, workspacePaths[1].path)) = 8
    /\ ConflictWarnings = << [kind |-> "presets", presets |-> <<"enterprise", "saas">>] >>

\* the conflicts check 2 records when it is reached, none otherwise
RecordedConflicts ==
    IF Len(workspacePaths) > 1 /\ primaryGuardrailWorkspace = <<>>
       /\ Cardinality(PresetValues) <= 1
    THEN IdConflicts(guardrailsPerWorkspace)
    ELSE <<>>

\* position of a root in the walk of the detector
WalkIndex(root) == MapIndex(guardrailsPerWorkspace, root)

\* the first root walked that has a rule with this id
FirstRootDefining(id) ==
    guardrailsPerWorkspace[
        Min({w \in DOMAIN guardrailsPerWorkspace :
                \E i \in DOMAIN guardrailsPerWorkspace[w].v :
                    guardrailsPerWorkspace[w].v[i].id = id})].k

\* the rules with this id in the effective rule-set of a root
DefinitionsOf(root, id) ==
    {g \in Range(MapGet(guardrailsPerWorkspace, root)) : g.id = id}

\* C14: a rule-identity conflict is recorded for id i exactly when a root
\* walked after the first root that defines i defines i with a name or
\* severity other than the first root's; a recorded conflict involves two
\* distinct roots.
C14_ConflictsAcrossRoots ==
    pc = "refreshed" =>
        /\ \A n \in DOMAIN RecordedConflicts :
              LET c == RecordedConflicts[n]
              IN  /\ c.existingPath # c.workspacePath
                  /\ c.existingPath = FirstRootDefining(c.id)
                  /\ WalkIndex(c.existingPath) < WalkIndex(c.workspacePath)
                  /\ \E g \in DefinitionsOf(c.workspacePath, c.id) :
                        \E f \in DefinitionsOf(c.existingPath, c.id) :
                            g.name = c.name /\ f.name = c.existingName
                            /\ (g.name # f.name \/ g.severity # f.severity)
        /\ (Len(workspacePaths) > 1 /\ primaryGuardrailWorkspace = <<>>
            /\ Cardinality(PresetValues) <= 1) =>
              \A w \in DOMAIN guardrailsPerWorkspace :
                 \A g \in Range(guardrailsPerWorkspace[w].v) :
                    LET first == FirstRootDefining(g.id)
                    IN  (first # guardrailsPerWorkspace[w].k
                         /\ \E f \in DefinitionsOf(first, g.id) :
                               f.name # g.name \/ f.severity # g.severity)
                        => \E n \in DOMAIN RecordedConflicts :
                              /\ RecordedConflicts[n].id = g.id
                              /\ RecordedConflicts[n].workspacePath = guardrailsPerWorkspace[w].k

\* C16: the effective rule-set of every root holds no two rules with the
\* same id, whatever valid document the root has (custom rules that reuse
\* an id and selected_ids that repeat an id included); so name and severity
\* of one id never differ within a root.
C16_UniqueIdsPerRoot ==
    pc = "refreshed" =>
        \A w \in DOMAIN guardrailsPerWorkspace :
           \A i, j \in DOMAIN guardrailsPerWorkspace[w].v :
              guardrailsPerWorkspace[w].v[i].id = guardrailsPerWorkspace[w].v[j].id => i = j

\* ------------------------------------------------------------------------
\* Roots whose specification documents cannot be read
\* ------------------------------------------------------------------------

\* a specs directory that readdirSync cannot list
TreeLocked == Unreadable

\* a specs directory whose second specification lost its requirements.md
\* between fs.existsSync and fs.readFileSync
TreeVanished ==
    SpecsDir(<< SpecDirEntry("feature-x", << Row(1, T_DONE) >>),
                [name |-> <<"feature-y">>, isDirectory |-> TRUE, requirements |-> Unreadable] >>)

UnreadableTrees == {NoDir, TreeDone, TreeLocked, TreeVanished}

\* a workspace of two folders with the saas rules, each with one of the trees
InitUnreadable ==
    /\ configFiles = [p \in {<<"client-a", "app">>, <<"client-b", "app">>} |-> CfgSaas]
    /\ \E trees \in [{<<"client-a", "app">>, <<"client-b", "app">>} -> UnreadableTrees] :
          specDirs = trees
    /\ activeProject = NullProject
    /\ primaryGuardrailWorkspace = <<>>
    /\ \E paths \in RootLists(Folders) :
          \E s \in {NewProvider(paths, EnvOf(NullProject, primaryGuardrailWorkspace))} :
              IsState(s)
    /\ pc = "constructed"
    /\ call = NoCall

SpecUnreadable == InitUnreadable /\ [][Next]_vars

\* the documents with every unreadable one taken as absent
ReadableDir(d) ==
    IF d.kind = "unreadable" THEN NoDir
    ELSE IF d.kind = "dir"
    THEN SpecsDir([i \in DOMAIN d.entries |->
                      IF d.entries[i].requirements.kind = "unreadable"
                      THEN [d.entries[i] EXCEPT !.requirements = NoDir]
                      ELSE d.entries[i]])
    ELSE d

EnvReadable == [Env EXCEPT !.specDirs = [p \in DOMAIN specDirs |-> ReadableDir(specDirs[p])]]

\* C15: after a refresh over roots some of whose specification documents
\* cannot be read, refresh() has not thrown, every root that is analysed has
\* its per-root coverage, computed with the unreadable documents taken as
\* absent, and the flat view is the one rebuilt from these results.
C15_ReadFailureIsAbsence ==
    pc \in {"refreshed", "threw"} =>
        /\ pc = "refreshed"
        /\ \A w \in Range(WorkspacesToAnalyze(Self, Env)) :
              /\ MapHas(coveragePerWorkspace, w.path)
              /\ MapGet(coveragePerWorkspace, w.path) = WorkspaceCoverage(Self, EnvReadable, w)
        /\ coverage = FlatCoverage(Self)

\* ------------------------------------------------------------------------
\* Marking a task complete in tasks.md
\* ------------------------------------------------------------------------

\* the most lines of a tasks.md
MaxLines == 3

\* what \s matches among the characters of the documents
Whitespace == {" ", "\t"}

\* the character at index i of a string, "" past its end
CharAt(s, i) == IF i \in DOMAIN s THEN s[i] ELSE ""

\* content.split('\n'): the pieces between the line feeds, from index i on,
\* cur being the piece under construction
RECURSIVE SplitFrom(_, _, _)
SplitFrom(content, i, cur) ==
    IF i > Len(content) THEN << cur >>
    ELSE IF content[i] = "\n" THEN << cur >> \o SplitFrom(content, i + 1, <<>>)
    ELSE SplitFrom(content, i + 1, Append(cur, content[i]))

SplitLines(content) == SplitFrom(content, 1, <<>>)

\* lines.join('\n')
RECURSIVE JoinFrom(_, _)
JoinFrom(lines, i) ==
    IF i > Len(lines) THEN <<>>
    ELSE IF i = Len(lines) THEN lines[i]
    ELSE lines[i] \o << "\n" >> \o JoinFrom(lines, i + 1)

JoinLines(lines) == JoinFrom(lines, 1)

\* taskNumber.replace(/\./g, '\\.')
RECURSIVE EscapeDotsFrom(_, _)
EscapeDotsFrom(taskNumber, i) ==
    IF i > Len(taskNumber) THEN <<>>
    ELSE (IF taskNumber[i] = "." THEN << "\\", "." >> ELSE << taskNumber[i] >>)
         \o EscapeDotsFrom(taskNumber, i + 1)


\* buildTaskPattern: the pattern is fixed but for the escaped task number
buildTaskPattern(taskNumber) == [escapedTaskNum |-> EscapeDotsFrom(taskNumber, 1)]

\* the index after the run of whitespace that starts at i (\s*, greedy: what
\* follows it in the pattern is never whitespace)
RECURSIVE SkipWhitespace(_, _)
SkipWhitespace(line, i) ==
    IF CharAt(line, i) \in Whitespace THEN SkipWhitespace(line, i + 1) ELSE i

\* the literal is in the line at index i
LiteralAt(line, i, literal) ==
    \A k \in DOMAIN literal : CharAt(line, i + k - 1) = literal[k]

\* the source of the task number matched at index i of the line: the index
\* after the match, 0 when it does not match (\. is a dot, . is any
\* character, a digit is itself)
RECURSIVE MatchSource(_, _, _, _)
MatchSource(source, k, line, i) ==
    IF k > Len(source) THEN i
    ELSE IF source[k] = "\\"
    THEN IF CharAt(line, i) = source[k + 1]
         THEN MatchSource(source, k + 2, line, i + 1) ELSE 0
    ELSE IF source[k] = "."
    THEN IF CharAt(line, i) # ""
         THEN MatchSource(source, k + 1, line, i + 1) ELSE 0
    ELSE IF CharAt(line, i) = source[k]
         THEN MatchSource(source, k + 1, line, i + 1) ELSE 0

TaskWord == << "*", "*", "T", "a", "s", "k" >>

TaskClose == << ":", "*", "*" >>

\* pattern.test(line) for ^(\s*)[-*]\s+\[\s\]\s+\*\*Task\s+<number>:\*\*
PatternTest(pattern, line) ==
    Const(SkipWhitespace(line, 1), LAMBDA bullet :
    Const(SkipWhitespace(line, bullet + 1), LAMBDA box :
    Const(SkipWhitespace(line, box + 3), LAMBDA word :
    Const(SkipWhitespace(line, word + Len(TaskWord)), LAMBDA number :
    Const(MatchSource(pattern.escapedTaskNum, 1, line, number), LAMBDA close :
        /\ CharAt(line, bullet) \in {"-", "*"}
        /\ box > bullet + 1
        /\ CharAt(line, box) = "["
        /\ CharAt(line, box + 1) \in Whitespace
        /\ CharAt(line, box + 2) = "]"
        /\ word > box + 3
        /\ LiteralAt(line, word, TaskWord)
        /\ number > word + Len(TaskWord)
        /\ close # 0
        /\ LiteralAt(line, close, TaskClose))))))

\* line.replace(/\[\s\]/, '[x]'): the first empty checkbox of the line
ReplaceCheckbox(line) ==
    Const({i \in DOMAIN line : /\ line[i] = "["
                               /\ CharAt(line, i + 1) \in Whitespace
                               /\ CharAt(line, i + 2) = "]"}, LAMBDA boxes :
          IF boxes = {} THEN line
          ELSE [line EXCEPT ![Min(boxes) + 1] = "x"])

\* string | null
NullContent == [null |-> TRUE, content |-> <<>>]

SomeContent(content) == [null |-> FALSE, content |-> content]

\* every line that matches is marked
markTaskInContentEvery(content, taskNumber) ==
    Const(SplitLines(content), LAMBDA lines :
    Const(buildTaskPattern(taskNumber), LAMBDA pattern :
          IF \E i \in DOMAIN lines : PatternTest(pattern, lines[i])
          THEN SomeContent(JoinLines([i \in DOMAIN lines |->
                   IF PatternTest(pattern, lines[i])
                   THEN ReplaceCheckbox(lines[i]) ELSE lines[i]]))
          ELSE NullContent))

markTaskInContent(content, taskNumber) ==
    Const(SplitLines(content), LAMBDA lines :
    Const(buildTaskPattern(taskNumber), LAMBDA pattern :
    Const({i \in DOMAIN lines : /\ PatternTest(pattern, lines[i])
                                /\ ReplaceCheckbox(lines[i]) # lines[i]}, LAMBDA hits :
          IF hits = {} THEN NullContent
          ELSE SomeContent(JoinLines([lines EXCEPT ![Min(hits)] = ReplaceCheckbox(@)])))))

\* the pieces of the lines of a tasks.md
Unchecked == << "[", " ", "]" >>

UncheckedTab == << "[", "\t", "]" >>

Checked == << "[", "x", "]" >>

TaskLine(indent, bullet, box, number) ==
    indent \o << bullet, " " >> \o box \o << " " >> \o TaskWord \o << " " >> \o number \o TaskClose

Number11 == << "1", ".", "1" >>

Number12 == << "1", ".", "2" >>

Number99 == << "9", ".", "9" >>

\* the lines a tasks.md is made of: open and completed tasks, a task whose
\* number differs from 1.1 in the dot only, a note with an empty checkbox, an
\* empty line
TaskLines ==
    { TaskLine(<<>>, "-", Unchecked, Number11),
      TaskLine(<< " ", " " >>, "*", UncheckedTab, Number11),
      TaskLine(<<>>, "-", Checked, Number11),
      TaskLine(<<>>, "-", Unchecked, Number12) \o << " ", "[", " ", "]" >>,
      TaskLine(<<>>, "-", Unchecked, << "1", "X", "1" >>),
      << "[", " ", "]", " ", "1", ".", "1" >>,
      <<>> }

TaskNumbers == {Number11, Number12, Number99}

\* a tasks.md on disk, before any command
InitTasks ==
    /\ Idle
    /\ \E lines \in SeqsUpTo(TaskLines, MaxLines) :
          call = [fn |-> "markTaskComplete", content |-> JoinLines(lines),
                  returned |-> FALSE, taskNumber |-> <<>>, before |-> <<>>,
                  result |-> NullContent]

\* TaskTreeProvider.markTaskComplete: reads tasks.md, marks the task and
\* writes the file back when markTaskInContent returned a content
MarkTaskComplete(taskNumber) ==
    /\ call.fn = "markTaskComplete"
    /\ \E updatedContent \in {markTaskInContent(call.content, taskNumber)} :
          call' = [call EXCEPT !.returned = TRUE,
                               !.taskNumber = taskNumber,
                               !.before = call.content,
                               !.result = updatedContent,
                               !.content = IF updatedContent.null \/ updatedContent.content = <<>>
                                           THEN @ ELSE updatedContent.content]
    /\ UNCHANGED <<providerVars, activeProject, primaryGuardrailWorkspace, fileVars, pc>>

NextTasks == \E taskNumber \in TaskNumbers : MarkTaskComplete(taskNumber)

SpecTasks == InitTasks /\ [][NextTasks]_vars

\* the line is an unchecked line of the task: optional indentation, a bullet,
\* an empty checkbox, **Task <number>:**
IsUncheckedTaskLine(line, taskNumber) ==
    \E indent \in {<<>>, << " ", " " >>}, bullet \in {"-", "*"}, box \in {Unchecked, UncheckedTab} :
        LET head == TaskLine(indent, bullet, box, taskNumber)
        IN  Len(line) >= Len(head) /\ SubSeq(line, 1, Len(head)) = head

\* the lines of the content that are unchecked lines of the task
UncheckedLinesOf(content, taskNumber) ==
    {i \in DOMAIN SplitLines(content) : IsUncheckedTaskLine(SplitLines(content)[i], taskNumber)}

\* the line with the checkbox of its task marker set to [x]
CheckedLine(line) ==
    LET i == Min({k \in DOMAIN line : line[k] = "["}) IN [line EXCEPT ![i + 1] = "x"]

\* C17 as stated: markTaskInContent changes exactly the first unchecked line
\* of task n, whose checkbox becomes [x]; it returns null when the content
\* has no unchecked line of task n; and a second call for the same task on
\* the returned content returns null.
C17_MarkThenNull ==
    (call.fn = "markTaskComplete" /\ call.returned) =>
        LET n == call.taskNumber
            old == SplitLines(call.before)
            open == UncheckedLinesOf(call.before, n)
        IN  /\ call.result.null <=> open = {}
            /\ ~call.result.null =>
                  LET new == SplitLines(call.result.content)
                  IN  /\ Len(new) = Len(old)
                      /\ new[Min(open)] = CheckedLine(old[Min(open)])
                      /\ new[Min(open)] # old[Min(open)]
                      /\ \A i \in DOMAIN old : i # Min(open) => new[i] = old[i]
                      /\ markTaskInContent(call.result.content, n).null

\* C17: markTaskInContent changes exactly the first unchecked line of task n,
\* whose checkbox becomes [x], and leaves every other line as it was; it
\* returns null when the content has no unchecked line of task n; a second
\* call for the same task on the returned content returns null when the
\* content held a single unchecked line of task n, and marks the next such
\* line otherwise.
C17_MarkFirstUnchecked ==
    (call.fn = "markTaskComplete" /\ call.returned) =>
        LET n == call.taskNumber
            old == SplitLines(call.before)
            open == UncheckedLinesOf(call.before, n)
        IN  /\ call.result.null <=> open = {}
            /\ ~call.result.null =>
                  LET new == SplitLines(call.result.content)
                  IN  /\ Len(new) = Len(old)
                      /\ new[Min(open)] = CheckedLine(old[Min(open)])
                      /\ new[Min(open)] # old[Min(open)]
                      /\ \A i \in DOMAIN old : i # Min(open) => new[i] = old[i]
                      /\ UncheckedLinesOf(call.result.content, n) = open \ {Min(open)}
                      /\ markTaskInContent(call.result.content, n).null <=> Cardinality(open) = 1

\* task 1.1 was marked in a content of three lines whose first line is the
\* completed task 1.1 and whose last line is the task 1X1
C17_Witness ==
    /\ call.fn = "markTaskComplete"
    /\ call.returned
    /\ call.taskNumber = Number11
    /\ ~call.result.null
    /\ Len(SplitLines(call.before)) = 3
    /\ SplitLines(call.before)[1] = TaskLine(<<>>, "-", Checked, Number11)
    /\ SplitLines(call.before)[3] = TaskLine(<<>>, "-", Unchecked, << "1", "X", "1" >>)
    /\ UncheckedLinesOf(call.before, Number11) = {2}
    /\ call.content = call.result.content

\* ------------------------------------------------------------------------
\* Lint and audit commands
\* ------------------------------------------------------------------------

\* the longest spec name handed to the commands
MaxNameLen == 2

VALID_AUDIT_TYPES ==
    << "spec-review", "code-audit", "security", "security-check", "pre-launch",
       "gap-analysis", "edge-cases", "architecture", "full" >>

\* /^[a-zA-Z0-9_.-]*$/ : the empty name passes
isValidSpecNameOrEmpty(name) ==
    \A i \in DOMAIN name :
        name[i] \in Range(LowerCase) \cup Range(UpperCase) \cup Range(DecimalDigits)
                    \cup {"_", ".", "-"}

\* /^[a-zA-Z0-9_.-]+$/.test(name)
isValidSpecName(name) ==
    /\ Len(name) >= 1
    /\ \A i \in DOMAIN name :
          name[i] \in Range(LowerCase) \cup Range(UpperCase) \cup Range(DecimalDigits)
                      \cup {"_", ".", "-"}

\* specName?: string
NoSpecName == [given |-> FALSE, name |-> <<>>]

SpecName(name) == [given |-> TRUE, name |-> name]

\* if (specName): undefined and the empty string are falsy
SpecNameTruthy(specName) == specName.given /\ specName.name # <<>>

\* the elements of args: a fixed word or audit type, or the spec name
Word(w) == [w |-> w, name |-> <<>>]

NameArg(name) == [w |-> "", name |-> name]

InvalidSpecNameMessage ==
    "Invalid spec name. Use only letters, numbers, hyphens, underscores, and dots."

\* what a command leaves: the error messages shown and the processes started
Ran(errors, started) == [errors |-> errors, started |-> started]

\* runCommandInTerminal: a task with a ProcessExecution, when a folder is open
runCommandInTerminal(args, folderOpen) ==
    IF ~folderOpen THEN Ran(<< "No workspace folder open" >>, <<>>)
    ELSE Ran(<<>>, << [runner |-> "task", args |-> args] >>)

\* runCommandToOutputChannel: execFile, and a message when the process fails
runCommandToOutputChannel(args, operation, succeeds) ==
    Ran(IF succeeds THEN <<>>
        ELSE << "LDF " \o operation \o " failed. See output panel for details." >>,
        << [runner |-> "execFile", args |-> args] >>)

runLint(specName, outputMode, folderOpen, succeeds) ==
    IF SpecNameTruthy(specName) /\ ~isValidSpecName(specName.name)
    THEN Ran(<< InvalidSpecNameMessage >>, <<>>)
    ELSE Const(IF SpecNameTruthy(specName)
               THEN << Word("lint"), NameArg(specName.name) >>
               ELSE << Word("lint"), Word("--all") >>, LAMBDA args :
               IF outputMode = "outputPanel"
               THEN runCommandToOutputChannel(args, "Lint", succeeds)
               ELSE runCommandInTerminal(args, folderOpen))

runAudit(specName, auditType, outputMode, folderOpen, succeeds) ==
    IF ~Includes(VALID_AUDIT_TYPES, auditType)
    THEN Ran(<< "Invalid audit type: " \o auditType >>, <<>>)
    ELSE IF ~isValidSpecName(specName)
    THEN Ran(<< InvalidSpecNameMessage >>, <<>>)
    ELSE Const(<< Word("audit"), Word("--type"), Word(auditType),
                  Word("--spec"), NameArg(specName) >>, LAMBDA args :
               IF outputMode = "outputPanel"
               THEN runCommandToOutputChannel(args, "Audit", succeeds)
               ELSE runCommandInTerminal(args, folderOpen))

\* the characters of the names: a letter of each case, a digit, the three
\* punctuation marks of the pattern, a shell metacharacter and a space
NameAlphabet == {"a", "Z", "7", "-", "_", ".", ";", " "}

SpecNames == SeqsUpTo(NameAlphabet, MaxNameLen)

AuditTypes == Range(VALID_AUDIT_TYPES) \cup {"", "Security", "full; id"}

OutputModes == {"terminal", "outputPanel"}

\* the extension activated, no command run yet
InitCommands ==
    /\ Idle
    /\ call = NoCall

RunLint ==
    /\ call = NoCall
    /\ \E specName \in {NoSpecName} \cup {SpecName(n) : n \in SpecNames},
          outputMode \in OutputModes, folderOpen \in BOOLEAN, succeeds \in BOOLEAN :
          call' = [fn |-> "runLint", specName |-> specName, auditType |-> "",
                   ran |-> runLint(specName, outputMode, folderOpen, succeeds)]
    /\ UNCHANGED <<providerVars, activeProject, primaryGuardrailWorkspace, fileVars, pc>>

RunAudit ==
    /\ call = NoCall
    /\ \E name \in SpecNames, auditType \in AuditTypes,
          outputMode \in OutputModes, folderOpen \in BOOLEAN, succeeds \in BOOLEAN :
          call' = [fn |-> "runAudit", specName |-> SpecName(name), auditType |-> auditType,
                   ran |-> runAudit(name, auditType, outputMode, folderOpen, succeeds)]
    /\ UNCHANGED <<providerVars, activeProject, primaryGuardrailWorkspace, fileVars, pc>>

NextCommands == RunLint \/ RunAudit

SpecCommands == InitCommands /\ [][NextCommands]_vars

\* the name is not empty and made of letters, digits, hyphens, underscores
\* and dots only
SafeName(name) ==
    /\ name # <<>>
    /\ \A i \in DOMAIN name :
          \/ name[i] \in {"-", "_", "."}
          \/ \E k \in 1..26 : name[i] \in {LowerCase[k], UpperCase[k]}
          \/ \E k \in 1..10 : name[i] = DecimalDigits[k]

\* the inputs of the command are acceptable: the spec name, when one is given
\* (runLint takes none, or an empty one, as a request to lint all), is safe
\* and, for an audit, the type is one of VALID_AUDIT_TYPES
Accepted ==
    /\ call.fn = "runAudit" =>
          /\ \E k \in DOMAIN VALID_AUDIT_TYPES : VALID_AUDIT_TYPES[k] = call.auditType
          /\ SafeName(call.specName.name)
    /\ (call.fn = "runLint" /\ call.specName.given /\ call.specName.name # <<>>) =>
          SafeName(call.specName.name)

\* C18: runLint and runAudit start the ldf process only when the spec name,
\* when one is given, is valid and, for an audit, the audit type is in
\* VALID_AUDIT_TYPES; every spec name among the arguments of a started process
\* is valid; on a rejected input an error message is shown and nothing is run.
C18_NoProcessOnInvalidInput ==
    call.fn \in {"runLint", "runAudit"} =>
        /\ call.ran.started # <<>> => Accepted
        /\ \A p \in Range(call.ran.started) :
              \A a \in Range(p.args) : a.w = "" => SafeName(a.name)
        /\ ~Accepted => (call.ran.errors # <<>> /\ call.ran.started = <<>>)

\* an audit of a valid type for a name with a shell metacharacter was
\* rejected, its message shown and nothing started
C18_Witness ==
    /\ call.fn = "runAudit"
    /\ call.auditType = "security-check"
    /\ call.specName.name = << "a", ";" >>
    /\ call.ran.errors = << InvalidSpecNameMessage >>
    /\ call.ran.started = <<>>

\* C19: VALID_AUDIT_TYPES has exactly 4 entries, and spec-review,
\* security-check, gap-analysis and edge-cases are among them (read in the
\* state a command leaves).
C19_FourAuditTypes ==
    call.fn \in {"runLint", "runAudit"} =>
        /\ Len(VALID_AUDIT_TYPES) = 4
        /\ {"spec-review", "security-check", "gap-analysis", "edge-cases"}
               \subseteq Range(VALID_AUDIT_TYPES)

\* ------------------------------------------------------------------------
\* Several matrix rows for one rule in one document
\* ------------------------------------------------------------------------

\* the rows of the requirements.md of the specification in the root
RowsOf(root, specName) ==
    LET entries == specDirs[root].entries
        e == CHOOSE e \in DOMAIN entries :
                 entries[e].isDirectory /\ entries[e].name = specName
    IN  entries[e].requirements.rows

\* the first row of the rule in the rows
FirstRowOf(rows, id) == rows[Min({r \in DOMAIN rows : rows[r].id = id})]

\* C20: after a refresh, in every root each rule's specCoverage has at most
\* one entry per specification name; the entry carries the status of the first
\* row of that rule in the specification's requirements document, whatever
\* rows follow; and the rule's overall status is the reduction of these entries.
C20_FirstRowKept ==
    pc = "refreshed" =>
        \A w \in DOMAIN coveragePerWorkspace :
            \A cov \in Range(coveragePerWorkspace[w].v) :
                LET root == coveragePerWorkspace[w].k
                    sc == cov.specCoverage
                IN  /\ \A i, j \in DOMAIN sc : sc[i].specName = sc[j].specName => i = j
                    /\ \A i \in DOMAIN sc :
                          /\ specDirs[root].kind = "dir"
                          /\ \E e \in Range(specDirs[root].entries) :
                                /\ e.isDirectory
                                /\ e.name = sc[i].specName
                                /\ e.requirements.kind = "file"
                                /\ \E r \in Range(e.requirements.rows) : r.id = cov.guardrail.id
                          /\ sc[i].status =
                                ParseStatusCell(
                                    FirstRowOf(RowsOf(root, sc[i].specName), cov.guardrail.id).status
                                ).status
                    /\ cov.status = ReductionPolicy(Len(sc), {sc[i].status : i \in DOMAIN sc})

\* a root whose feature-x document has the rows TODO and then DONE for rule 1
\* was scanned: rule 1 has the single entry todo and is not covered
C20_Witness ==
    /\ pc = "refreshed"
    /\ \E w \in DOMAIN coveragePerWorkspace :
          /\ specDirs[coveragePerWorkspace[w].k] = TreeTodo
          /\ \E cov \in Range(coveragePerWorkspace[w].v) :
                /\ cov.guardrail.id = 1
                /\ Len(cov.specCoverage) = 1
                /\ cov.specCoverage[1].status = "todo"
                /\ cov.status = "not-covered"
                /\ Cardinality({r \in DOMAIN RowsOf(coveragePerWorkspace[w].k, <<"feature-x">>) :
                       RowsOf(coveragePerWorkspace[w].k, <<"feature-x">>)[r].id = 1}) = 2

\* ------------------------------------------------------------------------
\* The status cell of a matrix row
\* ------------------------------------------------------------------------

\* the most whitespace on each side of the text of a status cell
MaxPad == 1

\* the texts of the status cells, without the whitespace around them
StatusWords ==
    { T_DONE, <<"d", "o", "n", "e">>, <<"D", "o", "n", "e">>,
      <<"D", "O", "N", "E", "!">>,
      T_N_A, <<"n", "/", "a">>, T_NA, <<"n", "a">>,
      T_NOT_APPLICABLE, <<"N", "o", "t", " ", "a", "p", "p", "l", "i", "c", "a", "b", "l", "e">>,
      <<"N", "/", "A", "b", "c">>,
      C_NA_NOT_MULTI_TENANT,
      <<"n", "/", "a", "-", "x">>,
      <<"N", "/", "A", " ", "-">>,
      <<"N", "/", "A", " ", "-", " ", "a", " ", "-", " ", "b">>,
      <<"N", "A", " ", "-", " ", "x">>,
      T_PARTIAL, <<"p", "a", "r", "t", "i", "a", "l">>,
      T_IN_PROGRESS, <<"I", "n", " ", "P", "r", "o", "g", "r", "e", "s", "s">>,
      <<"I", "N", "-", "P", "R", "O", "G", "R", "E", "S", "S">>,
      C_TODO, <<"t", "o", "d", "o">>, <<"W", "I", "P">>, <<"-">>,
      <<>> }

Pads == SeqsUpTo({" ", "\t"}, MaxPad)

\* a requirements.md with one matrix row for rule 9, before it is parsed
InitCell ==
    /\ Idle
    /\ \E pre \in Pads, word \in StatusWords, post \in Pads :
          call = [fn |-> "parseGuardrailCoverageForWorkspace",
                  pre |-> pre, word |-> word, post |-> post,
                  returned |-> FALSE,
                  result |-> << NewCoverage(CORE_GUARDRAILS[1]) >>]

\* parseGuardrailCoverageForWorkspace over the row, then the status loop of
\* analyzeCoverage
ParseCell ==
    /\ call.fn = "parseGuardrailCoverageForWorkspace"
    /\ ~call.returned
    /\ \E parsed \in {parseGuardrailCoverageForWorkspace(
                          <<"feature-x">>,
                          << Row(1, call.pre \o call.word \o call.post) >>,
                          call.result)} :
          call' = [call EXCEPT
                      !.returned = TRUE,
                      !.result = [i \in DOMAIN parsed |->
                                     [parsed[i] EXCEPT
                                         !.status = calculateOverallStatus(parsed[i].specCoverage)]]]
    /\ UNCHANGED <<providerVars, activeProject, primaryGuardrailWorkspace, fileVars, pc>>

NextCell == ParseCell

SpecCell == InitCell /\ [][NextCell]_vars

\* the text is the word, whatever the case of its letters
IsWord(text, word) ==
    /\ Len(text) = Len(word)
    /\ \A i \in DOMAIN text :
          \/ text[i] = word[i]
          \/ \E k \in 1..26 : text[i] = LowerCase[k] /\ word[i] = UpperCase[k]

\* the status the classification of the claim gives the text of a cell
ClassOf(text) ==
    IF IsWord(text, T_DONE) THEN "done"
    ELSE IF \/ IsWord(text, T_N_A) \/ IsWord(text, T_NA) \/ IsWord(text, T_NOT_APPLICABLE)
            \/ (Len(text) > 3 /\ IsWord(SubSeq(text, 1, 3), T_N_A))
    THEN "n/a"
    ELSE IF IsWord(text, T_PARTIAL) \/ IsWord(text, T_IN_PROGRESS) THEN "partial"
    ELSE "todo"

\* text is what rest becomes without the whitespace at its ends
IsTrimOf(text, rest) ==
    /\ \E a, b \in 0..Len(rest) :
          /\ a + b + Len(text) = Len(rest)
          /\ \A i \in 1..a : rest[i] \in {" ", "\t"}
          /\ \A i \in 1..b : rest[Len(rest) + 1 - i] \in {" ", "\t"}
          /\ \A i \in DOMAIN text : text[i] = rest[a + i]
    /\ text # <<>> => (text[1] \notin {" ", "\t"} /\ text[Len(text)] \notin {" ", "\t"})

\* C21: the status cell of a row is classified whatever its case and the
\* whitespace around it: DONE is done; N/A, NA, NOT APPLICABLE and every text
\* that begins with N/A are n/a; PARTIAL and IN PROGRESS are partial; every
\* other text, the empty one and TODO included, is todo. An n/a cell with a
\* hyphen carries the text after its first hyphen as justification, other
\* cells carry none; a rule whose only row is n/a is not-applicable overall.
C21_StatusCellClassified ==
    (call.fn = "parseGuardrailCoverageForWorkspace" /\ call.returned) =>
        LET cov == call.result[1]
            entry == cov.specCoverage[1]
            word == call.word
            hyphens == {i \in DOMAIN word : word[i] = "-"}
        IN  /\ Len(cov.specCoverage) = 1
            /\ entry.status = ClassOf(word)
            /\ entry.status \in {"done", "n/a", "partial", "todo"}
            /\ entry.justification.defined <=> (ClassOf(word) = "n/a" /\ hyphens # {})
            /\ entry.justification.defined =>
                  IsTrimOf(entry.justification.text,
                           SubSeq(word, Min(hyphens) + 1, Len(word)))
            /\ ClassOf(word) = "n/a" => cov.status = "not-applicable"
            /\ (ClassOf(word) = "n/a" /\ entry.justification.defined
                    /\ entry.justification.text # <<>>) =>
                  cov.justifications = << entry.justification.text >>

\* the cell `N/A - not multi-tenant`, with whitespace around it, was parsed:
\* n/a, not-applicable overall, justification `not multi-tenant`
C21_Witness ==
    /\ call.fn = "parseGuardrailCoverageForWorkspace"
    /\ call.returned
    /\ call.word = C_NA_NOT_MULTI_TENANT
    /\ call.pre # <<>>
    /\ call.result[1].specCoverage[1].status = "n/a"
    /\ call.result[1].status = "not-applicable"
    /\ call.result[1].specCoverage[1].justification.text =
          <<"n", "o", "t", " ", "m", "u", "l", "t", "i", "-", "t", "e", "n", "a", "n", "t">>

\* ------------------------------------------------------------------------
\* refresh() statement by statement
\* ------------------------------------------------------------------------

\* the statements of refresh() done so far, in order: one "resolve" per
\* iteration of the loading loop, "flat-rules", "detect", one "scan" per
\* iteration of the analysis loop (scan and status reduction), "flat-coverage"
Event(step, root) == [step |-> step, root |-> root]

\* refresh() is entered: loadGuardrails clears its maps
Begin(active, primary) ==
    /\ pc \in {"constructed", "refreshed"}
    /\ activeProject' = active
    /\ primaryGuardrailWorkspace' = primary
    /\ \E self \in {Self} :
          Becomes([self EXCEPT !.shown = <<>>,
                               !.guardrailsPerWorkspace = MapClear(@),
                               !.guardrailsFilePathPerWorkspace = MapClear(@),
                               !.presetsPerWorkspace = MapClear(@),
                               !.lastParseError = NoError])
    /\ pc' = "load"
    /\ call' = [fn |-> "refresh", i |-> 1, log |-> <<>>, start |-> Self]
    /\ UNCHANGED fileVars

\* a watcher event or the refresh command
BeginRefresh == Begin(activeProject, primaryGuardrailWorkspace)

\* setActiveProject(project): refreshAll() follows the assignment
BeginSetActiveProject(project) ==
    /\ IF project.null THEN TRUE
       ELSE \E i \in DOMAIN workspacePaths : workspacePaths[i].path = project.path
    /\ Begin(project, primaryGuardrailWorkspace)

\* the picker has updated the setting and calls refresh()
BeginSelectPrimary(selected) ==
    /\ Cardinality(Folders) >= 2
    /\ Begin(activeProject, selected)

\* one iteration of the loading loop
ResolveRoot ==
    /\ pc = "load"
    /\ \E self \in {Self}, env \in {Env} :
          \E workspacesToLoad \in {WorkspacesToLoad(self, env)} :
              /\ call.i <= Len(workspacesToLoad)
              /\ Becomes(LoadWorkspace(self, env, workspacesToLoad[call.i]))
              /\ call' = [call EXCEPT
                             !.i = @ + 1,
                             !.log = Append(@, Event("resolve", workspacesToLoad[call.i].path))]
    /\ UNCHANGED <<activeProject, primaryGuardrailWorkspace, fileVars, pc>>

\* after the loop: the primary's rule-set is shared, the flat array built
FlatRules ==
    /\ pc = "load"
    /\ \E self \in {Self}, env \in {Env} :
          \E workspacesToLoad \in {WorkspacesToLoad(self, env)} :
              /\ call.i > Len(workspacesToLoad)
              /\ \E shared \in {SharePrimary(self, env.primaryGuardrailWorkspace,
                                            workspacesToLoad)} :
                    Becomes([shared EXCEPT
                                !.guardrails = FlatGuardrails(shared.guardrailsPerWorkspace),
                                !.guardrailsFilePath =
                                    IF Len(shared.workspacePaths) > 0
                                    THEN PathJoin(shared.workspacePaths[1].path,
                                                  GuardrailsFileName)
                                    ELSE @])
    /\ call' = [call EXCEPT !.log = Append(@, Event("flat-rules", <<>>))]
    /\ pc' = "detect"
    /\ UNCHANGED <<activeProject, primaryGuardrailWorkspace, fileVars>>

\* the detector is the first statement of loadGuardrails
DetectOnEntry ==
    /\ pc = "load"
    /\ call.i = 1
    /\ call.log = <<>>
    /\ \E self \in {Self} :
          Becomes([self EXCEPT
                      !.shown = @ \o checkForConflictingConfigs(self, primaryGuardrailWorkspace)])
    /\ call' = [call EXCEPT !.log = Append(@, Event("detect", <<>>))]
    /\ UNCHANGED <<activeProject, primaryGuardrailWorkspace, fileVars, pc>>

\* the last statement of loadGuardrails; analyzeCoverage is entered and
\* clears coveragePerWorkspace
Detect ==
    /\ pc = "detect"
    /\ \E self \in {Self} :
          Becomes([self EXCEPT
                      !.shown = @ \o checkForConflictingConfigs(self, primaryGuardrailWorkspace),
                      !.coveragePerWorkspace = MapClear(@)])
    /\ call' = [call EXCEPT !.i = 1, !.log = Append(@, Event("detect", <<>>))]
    /\ pc' = "scan"
    /\ UNCHANGED <<activeProject, primaryGuardrailWorkspace, fileVars>>

\* one iteration of the loop of analyzeCoverage: scan and status reduction
ScanRoot ==
    /\ pc = "scan"
    /\ \E self \in {Self}, env \in {Env} :
          \E workspacesToAnalyze \in {WorkspacesToAnalyze(self, env)} :
              /\ call.i <= Len(workspacesToAnalyze)
              /\ Becomes([self EXCEPT !.coveragePerWorkspace =
                             MapSet(@, workspacesToAnalyze[call.i].path,
                                    WorkspaceCoverage(self, env, workspacesToAnalyze[call.i]))])
              /\ call' = [call EXCEPT
                             !.i = @ + 1,
                             !.log = Append(@, Event("scan", workspacesToAnalyze[call.i].path))]
    /\ UNCHANGED <<activeProject, primaryGuardrailWorkspace, fileVars, pc>>

\* after the loop: the flat coverage is rebuilt and refresh() returns
FlatCoverageStep ==
    /\ pc = "scan"
    /\ \E self \in {Self}, env \in {Env} :
          /\ call.i > Len(WorkspacesToAnalyze(self, env))
          /\ Becomes([self EXCEPT !.coverage = FlatCoverage(self)])
    /\ call' = [call EXCEPT !.log = Append(@, Event("flat-coverage", <<>>))]
    /\ pc' = "refreshed"
    /\ UNCHANGED <<activeProject, primaryGuardrailWorkspace, fileVars>>

NextSteps ==
    \/ BeginRefresh
    \/ \E p \in Folders : BeginSetActiveProject(ActiveProject(p))
    \/ BeginSetActiveProject(NullProject)
    \/ \E p \in Folders \cup {<<>>} : BeginSelectPrimary(p)
    \/ ResolveRoot
    \/ FlatRules
    \/ Detect
    \/ ScanRoot
    \/ FlatCoverageStep

SpecSteps == Init /\ [][NextSteps]_vars

\* the positions of the events of a step in the log
At(step) == {k \in DOMAIN call.log : call.log[k].step = step}

\* the roots the events of a step name
RootsOf(step) == {call.log[k].root : k \in At(step)}

\* the roots a refresh resolves and the roots it scans
RootsToLoad == {w.path : w \in Range(WorkspacesToLoad(Self, Env))}

RootsToAnalyze == {w.path : w \in Range(WorkspacesToAnalyze(Self, Env))}

\* C22 as stated: during a refresh every cross-root step (flat rule list,
\* conflict detector, flat coverage) comes after the rule-set resolution and
\* the scan with status reduction of every root of the refresh.
C22_CrossRootStepsLast ==
    (call.fn = "refresh") =>
        \A k \in At("flat-rules") \cup At("detect") \cup At("flat-coverage") :
            /\ RootsToLoad \subseteq {call.log[j].root : j \in At("resolve") \cap 1..k}
            /\ RootsToAnalyze \subseteq {call.log[j].root : j \in At("scan") \cap 1..k}

\* C22: during a refresh the flat rule list and the conflict detector come
\* after the rule-set resolution of every root that is resolved, the detector
\* after the flat rule list and before any root is scanned; the flat coverage
\* comes after the scan with status reduction of every root that is scanned
\* and is the last step; the statements leave the state refresh() leaves.
C22_CrossRootStepsAfterTheirInputs ==
    (call.fn = "refresh") =>
        /\ \A k \in At("flat-rules") \cup At("detect") :
              RootsToLoad \subseteq {call.log[j].root : j \in At("resolve") \cap 1..k}
        /\ \A k \in At("detect") :
              /\ At("flat-rules") \cap 1..k # {}
              /\ At("scan") \cap 1..k = {}
        /\ \A k \in At("flat-coverage") :
              /\ RootsToAnalyze \subseteq {call.log[j].root : j \in At("scan") \cap 1..k}
              /\ At("detect") \cap 1..k # {}
              /\ k = Len(call.log)
        /\ pc = "refreshed" <=> At("flat-coverage") # {}
        /\ pc = "refreshed" =>
              \E start \in {[call.start EXCEPT !.shown = <<>>]} : IsState(refresh(start, Env))

\* a refresh over two roots has ended: both were resolved, the detector ran
\* and warned, both were scanned, the flat coverage was built
C22_Witness ==
    /\ call.fn = "refresh"
    /\ pc = "refreshed"
    /\ Cardinality(RootsOf("resolve")) = 2
    /\ Cardinality(RootsOf("scan")) = 2
    /\ \E d \in Range(shown) : d.kind = "presets"
    /\ Max(At("resolve")) < Min(At("detect"))
    /\ Max(At("detect")) < Min(At("scan"))

\* ------------------------------------------------------------------------
\* The layers of the resolver: preset, custom rules, unknown ids
\* ------------------------------------------------------------------------

\* preset: absent, each bundle, `custom`, names without a bundle (one of them
\* a key Object.prototype has, one a bundle name in another case, one empty)
LayerPresets ==
    { Undefined, JStr("saas"), JStr("fintech"), JStr("healthcare"), JStr("api-only"),
      JStr("custom"), JStr("enterprise"), JStr("constructor"), JStr("SaaS"), JStr("") }

CustomEntry(id, name) == JObj(<< [k |-> "id", v |-> id], [k |-> "name", v |-> name] >>)

\* custom: absent; two rules with the optional fields absent; a rule with
\* every field; a rule with the optional fields null or empty; rules whose id
\* is 0 or whose name is empty
LayerCustom ==
    { Undefined,
      JArr(<< CustomEntry(JNum(99), JStr("Team Rule")),
              CustomEntry(JNum(40), JStr("House Rule")) >>),
      JArr(<< JObj(<< [k |-> "id", v |-> JNum(99)], [k |-> "name", v |-> JStr("Team Rule")],
                      [k |-> "description", v |-> JStr("Reviewed by the team")],
                      [k |-> "severity", v |-> JStr("low")],
                      [k |-> "enabled", v |-> JBool(FALSE)] >>) >>),
      JArr(<< JObj(<< [k |-> "id", v |-> JNum(99)], [k |-> "name", v |-> JStr("Team Rule")],
                      [k |-> "description", v |-> JStr("")],
                      [k |-> "enabled", v |-> JNull] >>) >>),
      JArr(<< CustomEntry(JNum(0), JStr("Zero")), CustomEntry(JNum(99), JStr("Team Rule")) >>),
      JArr(<< CustomEntry(JNum(99), JStr("")) >>) }

\* overrides: absent, or for an id no rule has (and a field no rule has)
LayerOverrides ==
    { Undefined,
      JObj(<< [k |-> "77", v |-> EnabledIs(FALSE)],
              [k |-> "seven", v |-> EnabledIs(FALSE)] >>),
      JObj(<< [k |-> "2", v |-> EnabledIs(FALSE)], [k |-> "77", v |-> EnabledIs(FALSE)] >>) }

\* disabled: absent, or ids and a name no rule has, with and without rule 3
LayerDisabled ==
    { Undefined,
      JArr(<< JNum(77), JStr("78"), JStr("No Such Rule") >>),
      JArr(<< JNum(3), JNum(77) >>) }

\* selected_ids: absent, ids rules have, and the same with ids no rule has
LayerSelected ==
    { Undefined,
      JArr(<< JNum(9), JNum(1) >>),
      JArr(<< JNum(77), JNum(9), JNum(78), JNum(1) >>) }

LayerDocs ==
    {ConfigDoc(preset, overrides, disabled, custom, selected_ids) :
        preset \in LayerPresets, overrides \in LayerOverrides,
        disabled \in LayerDisabled, custom \in LayerCustom,
        selected_ids \in LayerSelected}

\* the root whose document is under study
RootA == <<"client-a", "app">>

\* a workspace of two folders: the first holds the document, the second none
InitLayers ==
    /\ \E doc \in LayerDocs :
          configFiles = [p \in {RootA, <<"client-b", "app">>} |->
                            IF p = RootA THEN doc ELSE NoFile]
    /\ specDirs = [p \in {RootA, <<"client-b", "app">>} |->
                      IF p = RootA THEN TreeTodo ELSE NoDir]
    /\ activeProject = NullProject
    /\ primaryGuardrailWorkspace = <<>>
    /\ \E s \in {NewProvider(<< RootA, <<"client-b", "app">> >>,
                             EnvOf(NullProject, <<>>))} : IsState(s)
    /\ pc = "constructed"
    /\ call = NoCall

NextLayers == Refresh

SpecLayers == InitLayers /\ [][NextLayers]_vars

\* the document of the root and the rule-set resolved from it
DocA == configFiles[RootA]

RulesA == MapGet(guardrailsPerWorkspace, RootA)

\* the same rule but for the enabled flag
SameButEnabled(g, h) == [g EXCEPT !.enabled = TRUE] = [h EXCEPT !.enabled = TRUE]

\* the bundle the preset of the document names, empty when it names none
BundleOf(doc) ==
    IF doc.preset.t = "string" /\ doc.preset.s \in {"saas", "fintech", "healthcare", "api-only"}
    THEN PRESET_GUARDRAILS[doc.preset.s]
    ELSE <<>>

\* C23: for a valid document without a selected_ids filter, the resolved
\* rule-set begins with the 8 baseline rules in catalog order, followed by the
\* rules of the bundle the preset names, in catalog order (ids 9 to 13 for
\* saas), and every rule after them is a custom rule of the document; with an
\* unknown name, `custom` or no preset nothing stands between the baseline
\* rules and the custom ones.
C23_PresetBundleAfterBaseline ==
    (pc = "refreshed" /\ validateGuardrailConfig(DocA) = <<>> /\ DocA.selected_ids = Undefined) =>
        LET bundle == BundleOf(DocA)
        IN  /\ Len(CORE_GUARDRAILS) = 8
            /\ Len(RulesA) >= 8 + Len(bundle)
            /\ \A i \in 1..8 : SameButEnabled(RulesA[i], CORE_GUARDRAILS[i])
            /\ \A i \in DOMAIN bundle : SameButEnabled(RulesA[8 + i], bundle[i])
            /\ DocA.preset = JStr("saas") =>
                  [i \in 1..5 |-> RulesA[8 + i].id] = <<9, 10, 11, 12, 13>>
            /\ \A i \in (8 + Len(bundle) + 1)..Len(RulesA) :
                  /\ DocA.custom.t = "array"
                  /\ \E c \in Range(DocA.custom.a) :
                        /\ Prop(c, "id") = JNum(RulesA[i].id)
                        /\ Prop(c, "name") = JStr(RulesA[i].name)

\* a healthcare document with two custom rules was resolved: 8 baseline
\* rules, the 6 rules of the bundle, the 2 custom rules
C23_Witness ==
    /\ pc = "refreshed"
    /\ DocA.preset = JStr("healthcare")
    /\ DocA.selected_ids = Undefined
    /\ Len(RulesA) = 16
    /\ RulesA[9].id = 21
    /\ RulesA[15].id = 99

\* the rule the claim expects for an entry of `custom`: its id and name, the
\* description, severity and enabled flag it gives, and "", medium and true
\* for those it lacks
ExpectedCustom(c, g) ==
    /\ g.id = Prop(c, "id").n
    /\ g.name = Prop(c, "name").s
    /\ Prop(c, "description") = Undefined => g.description = ""
    /\ Prop(c, "description").t = "string" => g.description = Prop(c, "description").s
    /\ Prop(c, "severity") = Undefined => g.severity = "medium"
    /\ Prop(c, "severity").t = "string" => g.severity = Prop(c, "severity").s
    /\ Prop(c, "enabled") = Undefined => g.enabled = TRUE
    /\ Prop(c, "enabled").t = "boolean" => g.enabled = Prop(c, "enabled").b

\* C24: for a valid document without a selected_ids filter that raised no
\* diagnostic, the rules after the baseline and preset rules are the custom
\* rules of the document, every one of them, in document order, with ""
\* for a missing description, medium for a missing severity and true for a
\* missing enabled flag.
C24_EveryValidCustomAppended ==
    (/\ pc = "refreshed"
     /\ validateGuardrailConfig(DocA) = <<>>
     /\ DocA.selected_ids = Undefined
     /\ DocA.custom.t = "array"
     /\ shown = <<>>) =>
        LET base == 8 + Len(BundleOf(DocA))
            custom == DocA.custom.a
        IN  /\ Len(RulesA) = base + Len(custom)
            /\ \A i \in DOMAIN custom : ExpectedCustom(custom[i], RulesA[base + i])

\* the rules a document's references can name: those resolved from it
\* without its overrides, disabled list and selected_ids
CandidateRules(doc) ==
    loadGuardrailsForWorkspace(
        RootA, [doc EXCEPT !.overrides = Undefined, !.disabled = Undefined,
                           !.selected_ids = Undefined]).guardrails

\* the document without the entries of overrides, disabled and selected_ids
\* that name an id (or a name) no rule has
WithoutUnknownIds(doc) ==
    LET ids == {g.id : g \in Range(CandidateRules(doc))}
        names == {g.name : g \in Range(CandidateRules(doc))}
    IN  [doc EXCEPT
            !.overrides =
                IF @.t = "object"
                THEN JObj(SelectSeq(@.o, LAMBDA e : \E id \in ids : e.k = DecStr(id)))
                ELSE @,
            !.disabled =
                IF @.t = "array"
                THEN JArr(SelectSeq(@.a, LAMBDA d :
                         \/ d.t = "number" /\ d.n \in ids
                         \/ d.t = "string" /\ (d.s \in names \/ \E id \in ids : d.s = DecStr(id))))
                ELSE @,
            !.selected_ids =
                IF @.t = "array"
                THEN JArr(SelectSeq(@.a, LAMBDA n : n.t = "number" /\ n.n \in ids))
                ELSE @]

\* the specs directory without the matrix rows of ids the rule-set lacks
WithoutUnknownRows(dir, rules) ==
    IF dir.kind # "dir" THEN dir
    ELSE SpecsDir([e \in DOMAIN dir.entries |->
             IF dir.entries[e].requirements.kind = "file"
             THEN [dir.entries[e] EXCEPT !.requirements =
                      Requirements(SelectSeq(@.rows, LAMBDA row :
                          \E g \in Range(rules) : g.id = row.id))]
             ELSE dir.entries[e]])

\* C25: after a refresh, the coverage of the root has one entry per rule of
\* its rule-set and is the coverage its documents give without the rows of
\* ids the rule-set lacks; the rule-set and the diagnostic resolved from a
\* valid document are those resolved from the document without the entries
\* of overrides, disabled and selected_ids that name an id no rule has.
C25_UnknownIdsIgnored ==
    pc = "refreshed" =>
        /\ MapHas(coveragePerWorkspace, RootA)
        /\ LET cov == MapGet(coveragePerWorkspace, RootA)
           IN  /\ [i \in DOMAIN cov |-> cov[i].guardrail] = RulesA
               /\ cov = WorkspaceCoverage(
                            Self,
                            [Env EXCEPT !.specDirs[RootA] =
                                WithoutUnknownRows(specDirs[RootA], RulesA)],
                            WorkspaceEntry(RootA))
        /\ validateGuardrailConfig(DocA) = <<>> =>
              /\ validateGuardrailConfig(WithoutUnknownIds(DocA)) = <<>>
              /\ loadGuardrailsForWorkspace(RootA, WithoutUnknownIds(DocA))
                    = loadGuardrailsForWorkspace(RootA, DocA)
              /\ RulesA = loadGuardrailsForWorkspace(RootA, WithoutUnknownIds(DocA)).guardrails

\* a document whose overrides, disabled list and selected_ids each name an
\* id no rule has, next to ids rules have, was resolved, and the documents
\* of the root, with a row for rule 99 that the rule-set lacks, were scanned
C25_Witness ==
    /\ pc = "refreshed"
    /\ DocA.preset = JStr("saas")
    /\ Prop(DocA.overrides, "77") # Undefined
    /\ Prop(DocA.overrides, "2") # Undefined
    /\ DocA.disabled = JArr(<< JNum(3), JNum(77) >>)
    /\ DocA.selected_ids = JArr(<< JNum(77), JNum(9), JNum(78), JNum(1) >>)
    /\ [i \in DOMAIN RulesA |-> RulesA[i].id] = <<9, 1>>
    /\ \E row \in Range(RowsOf(RootA, <<"feature-x">>)) : row.id = 99
    /\ Len(MapGet(coveragePerWorkspace, RootA)) = 2
    /\ MapGet(coveragePerWorkspace, RootA)[2].specCoverage # <<>>

\* ------------------------------------------------------------------------
\* The static catalog as objects: who holds a reference to what
\* ------------------------------------------------------------------------

\* a reference to a rule object: of CORE_GUARDRAILS, of a bundle of
\* PRESET_GUARDRAILS, or allocated during the call
CoreRef(i) == [space |-> "core", preset |-> "", i |-> i]

PresetRef(preset, i) == [space |-> "preset", preset |-> preset, i |-> i]

FreshRef(i) == [space |-> "fresh", preset |-> "", i |-> i]

\* the objects: the two static tables and the objects allocated by the call
NewHeap(core, presets) == [core |-> core, presets |-> presets, fresh |-> <<>>]

Deref(heap, ref) ==
    CASE ref.space = "core" -> heap.core[ref.i]
      [] ref.space = "preset" -> heap.presets[ref.preset][ref.i]
      [] OTHER -> heap.fresh[ref.i]

\* guardrail.enabled = b
SetEnabled(heap, ref, b) ==
    CASE ref.space = "core" -> [heap EXCEPT !.core[ref.i].enabled = b]
      [] ref.space = "preset" -> [heap EXCEPT !.presets[ref.preset][ref.i].enabled = b]
      [] OTHER -> [heap EXCEPT !.fresh[ref.i].enabled = b]

\* the list of references and the objects, as the statements pass them on
Held(heap, refs) == [heap |-> heap, refs |-> refs]

\* the table is used as it is: the list holds the objects of the table
ShareRules(heap, refs, table) == Held(heap, refs \o table)

\* table.map(g => ({ ...g })): a new object per rule, appended to the list
CopyRules(heap, refs, table) ==
    Held([heap EXCEPT !.fresh = @ \o [i \in DOMAIN table |-> Deref(heap, table[i])]],
         refs \o [i \in DOMAIN table |-> FreshRef(Len(heap.fresh) + i)])

\* the loop over guardrails that applies config.overrides, from position i on
RECURSIVE OverrideFrom(_, _, _)
OverrideFrom(held, config, i) ==
    IF i > Len(held.refs) THEN held
    ELSE Const(Prop(config.overrides, DecStr(Deref(held.heap, held.refs[i]).id)),
               LAMBDA override :
         OverrideFrom(
             IF Truthy(override) /\ TypeOf(Prop(override, "enabled")) = "boolean"
             THEN Held(SetEnabled(held.heap, held.refs[i], Prop(override, "enabled").b),
                       held.refs)
             ELSE held,
             config, i + 1))

\* the loop over guardrails that applies config.disabled, from position i on
RECURSIVE DisableFrom(_, _, _)
DisableFrom(held, config, i) ==
    IF i > Len(held.refs) THEN held
    ELSE DisableFrom(
             IF IsDisabled(Deref(held.heap, held.refs[i]), config.disabled.a)
             THEN Held(SetEnabled(held.heap, held.refs[i], FALSE), held.refs)
             ELSE held,
             config, i + 1)

\* the statements of the try block on a validated config
ResolveOnHeap(held, config) ==
    Const(IF /\ Truthy(config.preset)
             /\ config.preset.s # "custom"
             /\ config.preset.s \in DOMAIN PRESET_GUARDRAILS
          THEN CopyRules(held.heap, held.refs,
                         [i \in DOMAIN held.heap.presets[config.preset.s] |->
                             PresetRef(config.preset.s, i)])
          ELSE held, LAMBDA withPreset :
    Const(IF Truthy(config.overrides)
          THEN OverrideFrom(withPreset, config, 1) ELSE withPreset, LAMBDA overridden :
    Const(IF Truthy(config.disabled) /\ IsArray(config.disabled)
          THEN DisableFrom(overridden, config, 1) ELSE overridden, LAMBDA disabled :
          \* custom rules are new objects; selected_ids filters the values
          [heap |-> disabled.heap,
           guardrails |->
               ApplySelectedIds(
                   AddCustom([i \in DOMAIN disabled.refs |->
                                 Deref(disabled.heap, disabled.refs[i])], config),
                   config)])))

\* loadGuardrailsForWorkspace over the objects: the tables after the call
\* and the rule-set returned
LoadOnHeap(core, presets, doc) ==
    Const(CopyRules(NewHeap(core, presets), <<>>, [i \in DOMAIN core |-> CoreRef(i)]),
          LAMBDA held :
          IF \/ doc.kind # "object"
             \/ Len(ValidationErrors(doc)) > 0
             \/ PresetLookupThrows(doc)
          THEN [heap |-> held.heap,
                guardrails |-> [i \in DOMAIN held.refs |-> Deref(held.heap, held.refs[i])]]
          ELSE ResolveOnHeap(held, doc))

\* the documents: with and without a bundle, overrides, disabled ids and
\* names, a custom rule, a selection; no file, a file that does not parse, an
\* empty file, a malformed document
CatalogDocs ==
    {NoFile, BadYaml, EmptyDoc, CfgInvalid}
        \cup {ConfigDoc(preset, overrides, disabled, custom, selected_ids) :
                 preset \in {Undefined, JStr("saas"), JStr("constructor")},
                 overrides \in {Undefined,
                                JObj(<< [k |-> "1", v |-> EnabledIs(TRUE)],
                                        [k |-> "2", v |-> EnabledIs(FALSE)],
                                        [k |-> "9", v |-> EnabledIs(FALSE)] >>)},
                 disabled \in {Undefined,
                               JArr(<< JNum(1), JStr("9") >>),
                               JArr(<< JStr("Testing Coverage"),
                                       JStr("Multi-Tenancy Isolation") >>)},
                 custom \in {Undefined, JArr(<< CustomEntry(JNum(99), JStr("Team Rule")) >>)},
                 selected_ids \in {Undefined, JArr(<< JNum(9), JNum(1) >>)}}

\* the class is loaded: the static tables hold their literals
InitCatalog ==
    /\ Idle
    /\ call = [fn |-> "loadGuardrailsForWorkspace",
               core |-> CORE_GUARDRAILS, presets |-> PRESET_GUARDRAILS,
               root |-> <<>>, doc |-> NoFile, guardrails |-> <<>>, loads |-> 0]

\* one call of loadGuardrailsForWorkspace for a root, during some refresh
LoadRoot(root, doc) ==
    /\ call.fn = "loadGuardrailsForWorkspace"
    /\ \E r \in {LoadOnHeap(call.core, call.presets, doc)} :
          call' = [call EXCEPT !.core = r.heap.core, !.presets = r.heap.presets,
                               !.root = root, !.doc = doc, !.guardrails = r.guardrails,
                               !.loads = IF @ < 2 THEN @ + 1 ELSE @]
    /\ UNCHANGED <<providerVars, activeProject, primaryGuardrailWorkspace, fileVars, pc>>

NextCatalog ==
    \E root \in {RootA, <<"client-b", "app">>}, doc \in CatalogDocs : LoadRoot(root, doc)

SpecCatalog == InitCatalog /\ [][NextCatalog]_vars

\* the document names the rule in its disabled list or gives it an override
Touches(doc, g) ==
    /\ doc.kind = "object"
    /\ \/ Prop(doc.overrides, DecStr(g.id)) # Undefined
       \/ (doc.disabled.t = "array" /\ IsDisabled(g, doc.disabled.a))

\* C26: after any sequence of resolutions for any roots, every rule of
\* CORE_GUARDRAILS and PRESET_GUARDRAILS has the fields of its literal,
\* enabled included; the rule-set returned is the one the document alone
\* determines; and every catalog rule in it that the document neither
\* overrides nor disables is enabled.
C26_CatalogNeverMutated ==
    (call.fn = "loadGuardrailsForWorkspace") =>
        /\ call.core = CORE_GUARDRAILS
        /\ call.presets = PRESET_GUARDRAILS
        /\ \A g \in Range(call.core) : g.enabled
        /\ \A p \in DOMAIN call.presets : \A g \in Range(call.presets[p]) : g.enabled
        /\ call.loads > 0 =>
              /\ call.guardrails = loadGuardrailsForWorkspace(call.root, call.doc).guardrails
              /\ \A g \in Range(call.guardrails) :
                    (g.id <= 30 /\ ~Touches(call.doc, g)) => g.enabled

\* after a resolution that disabled rules 1 and 9 for one root, the other
\* root's document, which names neither, was resolved: both rules are enabled
C26_Witness ==
    /\ call.fn = "loadGuardrailsForWorkspace"
    /\ call.loads = 2
    /\ call.root = <<"client-b", "app">>
    /\ call.doc.kind = "object"
    /\ call.doc.preset = JStr("saas")
    /\ call.doc.overrides = Undefined
    /\ call.doc.disabled = Undefined
    /\ call.doc.selected_ids = Undefined
    /\ Len(call.guardrails) >= 13
    /\ call.guardrails[1].enabled
    /\ call.guardrails[9].enabled

\* ------------------------------------------------------------------------
\* Flat view: the names of the spec entries
\* ------------------------------------------------------------------------

\* the roots that have a spec entry for rule id which the flat view names
\* name
RootsNamed(id, name) ==
    {coveragePerWorkspace[e[1]].k :
        e \in {e \in PerRootEntries(id) : ExpectedFlatEntry(e).specName = name}}

\* C27: with more than one root in the root list, every spec entry of the
\* flat view carries a name that the entries of exactly one root have, roots
\* of the same folder name with specs of the same name included.
C27_FlatNamesAttributable ==
    (pc = "refreshed" /\ Len(workspacePaths) > 1) =>
        \A n \in DOMAIN coverage : \A i \in DOMAIN coverage[n].specCoverage :
            Cardinality(RootsNamed(coverage[n].guardrail.id,
                                   coverage[n].specCoverage[i].specName)) = 1

\* ------------------------------------------------------------------------
\* Tasks of several roots: loading them and marking one complete
\* ------------------------------------------------------------------------

DigitChars == {"0", "1", "2", "3", "4", "5", "6", "7", "8", "9"}

\* the index after the run of digits that starts at i (\d+ when it moved)
RECURSIVE SkipDigits(_, _)
SkipDigits(line, i) ==
    IF CharAt(line, i) \in DigitChars THEN SkipDigits(line, i + 1) ELSE i

\* (?:\.\d+)? at index i: the index after the group, i when it is skipped
OptionalPart(line, i) ==
    IF CharAt(line, i) = "." /\ SkipDigits(line, i + 1) > i + 1
    THEN SkipDigits(line, i + 1) ELSE i

\* \d+(?:\.\d+)?(?:\.\d+)? at index i: the index after it, 0 without a digit
MatchTaskNumber(line, i) ==
    IF SkipDigits(line, i) = i THEN 0
    ELSE OptionalPart(line, OptionalPart(line, SkipDigits(line, i)))

\* what parseTasksContent pushes for a line
ParsedTask(specName, taskNumber, title, isComplete, lineNumber) ==
    [id |-> specName \o << ":" >> \o taskNumber, specName |-> specName, title |-> title,
     taskNumber |-> taskNumber, isComplete |-> isComplete, line |-> lineNumber]

\* line.match(boldCheckboxPattern) and the task pushed for it:
\* ^(\s*)[-*]\s+\[([ xX])\]\s+\*\*Task\s+(\d+(?:\.\d+)?(?:\.\d+)?):\*\*\s*(.+)$
ParseTaskLine(specName, line, lineNumber) ==
    Const(SkipWhitespace(line, 1), LAMBDA bullet :
    Const(SkipWhitespace(line, bullet + 1), LAMBDA box :
    Const(SkipWhitespace(line, box + 3), LAMBDA word :
    Const(SkipWhitespace(line, word + Len(TaskWord)), LAMBDA number :
    Const(MatchTaskNumber(line, number), LAMBDA close :
        IF /\ CharAt(line, bullet) \in {"-", "*"}
           /\ box > bullet + 1
           /\ CharAt(line, box) = "["
           /\ CharAt(line, box + 1) \in {" ", "x", "X"}
           /\ CharAt(line, box + 2) = "]"
           /\ word > box + 3
           /\ LiteralAt(line, word, TaskWord)
           /\ number > word + Len(TaskWord)
           /\ close # 0
           /\ LiteralAt(line, close, TaskClose)
           /\ Len(line) >= close + Len(TaskClose)
        THEN << ParsedTask(specName,
                           SubSeq(line, number, close - 1),
                           Trim(SubSeq(line, close + Len(TaskClose), Len(line))),
                           CharAt(line, box + 1) \in {"x", "X"},
                           lineNumber) >>
        ELSE <<>>)))))

\* parseTasksContent: the tasks of the lines, in the order of the lines
parseTasksContent(specName, content) ==
    Const(SplitLines(content), LAMBDA lines :
          Concat([i \in DOMAIN lines |-> ParseTaskLine(specName, lines[i], i)]))

\* tasks.find(t => t.status === 'pending') gets status 'next'
MarkNext(tasks) ==
    Const({i \in DOMAIN tasks : tasks[i].status = "pending"}, LAMBDA pending :
          IF pending = {} THEN tasks
          ELSE [tasks EXCEPT ![Min(pending)].status = "next"])

\* TaskTreeProvider.parseTasksFile; folderName "" is undefined
parseTasksFile(specName, content, folderPath, showNextTask) ==
    Const(parseTasksContent(specName, content), LAMBDA parsed :
    Const([i \in DOMAIN parsed |->
              [id |-> parsed[i].id, specName |-> parsed[i].specName,
               title |-> parsed[i].taskNumber \o << ":", " " >> \o parsed[i].title,
               status |-> IF parsed[i].isComplete THEN "complete" ELSE "pending",
               line |-> parsed[i].line, folderPath |-> folderPath,
               folderName |-> <<>>]], LAMBDA tasks :
          IF showNextTask THEN MarkNext(tasks) ELSE tasks))

\* the characters of ids and folder names in the order localeCompare gives
\* them: punctuation, digits, letters
CollationOrder ==
    << "-", ":", ".", "0", "1", "2", "3", "4", "5", "6", "7", "8", "9",
       "a", "b", "c", "d", "e", "f", "g", "h", "i", "j", "k", "l", "m",
       "n", "o", "p", "q", "r", "s", "t", "u", "v", "w", "x", "y", "z" >>

CollationRank(c) == Pick({i \in DOMAIN CollationOrder : CollationOrder[i] = c})

\* a.localeCompare(b) from index i on: negative, zero or positive
RECURSIVE LocaleCompareFrom(_, _, _)
LocaleCompareFrom(a, b, i) ==
    IF i > Len(a) /\ i > Len(b) THEN 0
    ELSE IF i > Len(a) THEN -1
    ELSE IF i > Len(b) THEN 1
    ELSE IF a[i] = b[i] THEN LocaleCompareFrom(a, b, i + 1)
    ELSE IF CollationRank(a[i]) < CollationRank(b[i]) THEN -1 ELSE 1

localeCompare(a, b) == LocaleCompareFrom(a, b, 1)

statusOrder == [next |-> 0, pending |-> 1, complete |-> 2]

\* the comparator of the per-workspace sort
CompareInWorkspace(a, b) ==
    IF statusOrder[a.status] # statusOrder[b.status]
    THEN statusOrder[a.status] - statusOrder[b.status]
    ELSE localeCompare(a.id, b.id)

\* the comparator of the final sort
CompareForDisplay(a, b) ==
    IF statusOrder[a.status] # statusOrder[b.status]
    THEN statusOrder[a.status] - statusOrder[b.status]
    ELSE IF a.folderName # <<>> /\ b.folderName # <<>> /\ a.folderName # b.folderName
    THEN localeCompare(a.folderName, b.folderName)
    ELSE localeCompare(a.id, b.id)

\* Array.prototype.sort, which is stable: an element comes after the
\* elements that compare less and after the earlier ones that compare equal
Sort(tasks, Compare(_, _)) ==
    LET at(i) == 1 + Cardinality({j \in DOMAIN tasks :
                        \/ Compare(tasks[j], tasks[i]) < 0
                        \/ (j < i /\ Compare(tasks[j], tasks[i]) = 0)})
    IN  [p \in DOMAIN tasks |-> tasks[Pick({i \in DOMAIN tasks : at(i) = p})]]

\* a tasks.md that does not exist
NoTasksFile == [exists |-> FALSE, content |-> <<>>]

TasksFile(content) == [exists |-> TRUE, content |-> content]

\* the folder name of a root as characters
NameChars(name) ==
    CASE name = "app" -> << "a", "p", "p" >>
      [] name = "lib" -> << "l", "i", "b" >>
      [] OTHER -> <<>>

\* the spec directory every root of the task documents has
TaskSpecName == << "a", "u", "t", "h" >>

perWorkspaceLimit == 50

\* the tasks of one workspace in loadTasks: parsed, given their folder,
\* sorted and cut to the limit; files maps the root to its auth/tasks.md
WorkspaceTasks(workspace, files, isMultiRoot, showNextTask) ==
    IF ~files[workspace.path].exists THEN <<>>
    ELSE Const(parseTasksFile(TaskSpecName, files[workspace.path].content,
                              workspace.path, showNextTask), LAMBDA specTasks :
         Const(Sort([i \in DOMAIN specTasks |->
                        [specTasks[i] EXCEPT !.folderName =
                            IF isMultiRoot THEN NameChars(workspace.name) ELSE @]],
                    CompareInWorkspace), LAMBDA workspaceTasks :
               SubSeq(workspaceTasks, 1, Min({Len(workspaceTasks), perWorkspaceLimit}))))

\* TaskTreeProvider.loadTasks: this.tasks
loadTasks(workspacePaths_, active, files, showNextTask) ==
    Const(IF ~active.null
          THEN SelectSeq(workspacePaths_, LAMBDA w : w.path = active.path)
          ELSE workspacePaths_, LAMBDA workspacesToLoad :
          Sort(Concat([i \in DOMAIN workspacesToLoad |->
                          WorkspaceTasks(workspacesToLoad[i], files,
                                         Len(workspacesToLoad) > 1, showNextTask)]),
               CompareForDisplay))

\* taskId.lastIndexOf(':'), 0 for -1
LastColon(taskId) ==
    Const({i \in DOMAIN taskId : taskId[i] = ":"}, LAMBDA colons :
          IF colons = {} THEN 0 ELSE CHOOSE i \in colons : \A j \in colons : j <= i)

\* TaskTreeProvider.markTaskComplete(taskId): the files afterwards and the
\* value returned; the file read is auth/tasks.md of task.folderPath
markTaskComplete(tasks, files, taskId) ==
    Const({i \in DOMAIN tasks : tasks[i].id = taskId}, LAMBDA found :
    IF found = {} THEN [files |-> files, returned |-> FALSE]
    ELSE Const(tasks[Min(found)], LAMBDA task :
         Const(LastColon(taskId), LAMBDA colonIndex :
         IF \/ colonIndex = 0
            \/ SubSeq(taskId, 1, colonIndex - 1) # TaskSpecName
            \/ ~files[task.folderPath].exists
         THEN [files |-> files, returned |-> FALSE]
         ELSE Const(markTaskInContent(files[task.folderPath].content,
                                      SubSeq(taskId, colonIndex + 1, Len(taskId))),
                    LAMBDA updatedContent :
              IF updatedContent.null \/ updatedContent.content = <<>>
              THEN [files |-> files, returned |-> FALSE]
              ELSE [files |-> [files EXCEPT ![task.folderPath] =
                                  TasksFile(updatedContent.content)],
                    returned |-> TRUE]))))

\* the most lines of a tasks.md of the two roots
MaxTaskLines == 2

\* task lines with a title: an open and a completed task 1.1, an open task 1.2
TitledLines ==
    { TaskLine(<<>>, "-", Unchecked, Number11) \o << " ", "A" >>,
      TaskLine(<<>>, "-", Checked, Number11) \o << " ", "A" >>,
      TaskLine(<<>>, "-", Unchecked, Number12) \o << " ", "B" >> }

TaskFiles ==
    {NoTasksFile} \cup {TasksFile(JoinLines(lines)) : lines \in SeqsUpTo(TitledLines, MaxTaskLines)}

\* two roots, of the same folder name or not
TaskRootLists ==
    { << [path |-> <<"client-a", "app">>, name |-> "app"],
         [path |-> <<"client-b", name>>, name |-> name] >> : name \in {"app", "lib"} }

\* no tree item was used yet
NoItem == [id |-> <<>>, folderPath |-> <<>>]

\* the provider has loaded the tasks of two roots that both have a spec auth
InitTaskRoots ==
    /\ Idle
    /\ \E roots \in TaskRootLists, a \in TaskFiles, b \in TaskFiles, showNextTask \in BOOLEAN :
          \E files \in {(roots[1].path :> a) @@ (roots[2].path :> b)} :
              call = [fn |-> "ldf.markTaskComplete", workspacePaths |-> roots,
                      showNextTask |-> showNextTask, files |-> files,
                      tasks |-> loadTasks(roots, NullProject, files, showNextTask),
                      item |-> NoItem, before |-> files, returned |-> FALSE]

\* command ldf.markTaskComplete on the tree item of task k of this.tasks:
\* markTaskComplete(item.taskId), which refreshes after a write
MarkTaskCompleteOfItem(k) ==
    /\ call.fn = "ldf.markTaskComplete"
    /\ k \in DOMAIN call.tasks
    /\ \E r \in {markTaskComplete(call.tasks, call.files, call.tasks[k].id)} :
          call' = [call EXCEPT !.item = [id |-> call.tasks[k].id,
                                         folderPath |-> call.tasks[k].folderPath],
                               !.before = call.files,
                               !.files = r.files,
                               !.returned = r.returned,
                               !.tasks = IF r.returned
                                         THEN loadTasks(call.workspacePaths, NullProject,
                                                        r.files, call.showNextTask)
                                         ELSE @]
    /\ UNCHANGED <<providerVars, activeProject, primaryGuardrailWorkspace, fileVars, pc>>

NextTaskRoots == \E k \in 1..(2 * (MaxTaskLines + 1)) : MarkTaskCompleteOfItem(k)

SpecTaskRoots == InitTaskRoots /\ [][NextTaskRoots]_vars

\* the tasks of a tasks.md that are not complete, by line
PendingLines(file) ==
    IF ~file.exists THEN {}
    ELSE {t.line : t \in {t \in Range(parseTasksContent(TaskSpecName, file.content)) :
                             ~t.isComplete}}

\* the lines whose task went from pending to complete
Completed(before, after) == PendingLines(before) \ PendingLines(after)

\* C28: a call of markTaskComplete for the tree item of a task of root R
\* leaves the tasks.md of every other root as it was, and at most one task
\* goes from pending to complete.
C28_OnlyTheItemsRoot ==
    (call.fn = "ldf.markTaskComplete" /\ call.item # NoItem) =>
        /\ \A root \in DOMAIN call.files :
              root # call.item.folderPath => call.files[root] = call.before[root]
        /\ Cardinality({<<root, line>> \in (DOMAIN call.files) \X (1..(MaxTaskLines + 1)) :
                           line \in Completed(call.before[root], call.files[root])}) <= 1

\* ------------------------------------------------------------------------
\* The extension: workspace manifest, active project, subproject watchers
\* ------------------------------------------------------------------------

\* the most runs of initializeWorkspaceContext suspended at the same time
MaxRuns == 2

\* the opened folder, which is primaryFolder and holds ldf-workspace.yaml
Mono == << "mono" >>

\* a project entry of the manifest
ProjectEntry(p) == [path |-> p, alias |-> IF p = "." THEN "mono" ELSE p]

\* ldf-workspace.yaml as parsed: its explicit projects (no discovery patterns)
Manifest(paths) == [null |-> FALSE, name |-> "mono",
                    explicit |-> [i \in DOMAIN paths |-> ProjectEntry(paths[i])]]

\* no ldf-workspace.yaml, or one that does not parse
NoManifest == [null |-> TRUE]

Manifests ==
    { NoManifest, Manifest(<< "app", "lib" >>), Manifest(<< "app" >>),
      Manifest(<< "lib" >>), Manifest(<< ".", "app" >>) }

\* path.resolve(root, p)
PathResolve(root, p) == IF p = "." THEN root ELSE root \o << p >>

\* detectWorkspaceContext(primaryFolder) with the manifest on disk
detectWorkspaceContext(manifest) ==
    IF manifest.null THEN [null |-> TRUE]
    ELSE [null |-> FALSE, root |-> Mono, manifest |-> manifest]

\* resolveProjects(manifest, root): the explicit projects
resolveProjects(manifest) == manifest.explicit

\* projects.map(p => ({ path: path.resolve(wsInfo.root, p.path), ... }))
ResolvedProjects(wsInfo, projects) ==
    [i \in DOMAIN projects |->
        [path |-> PathResolve(wsInfo.root, projects[i].path),
         alias |-> projects[i].alias,
         isSubproject |-> projects[i].path # "."]]

\* the two watchers created for each subproject, in the order of the loop
WatchersFor(resolved) ==
    Concat([i \in DOMAIN resolved |->
               IF resolved[i].isSubproject
               THEN << [project |-> resolved[i].path, pattern |-> "specs"],
                       [project |-> resolved[i].path, pattern |-> "guardrails"] >>
               ELSE <<>>])

\* the module-level state of extension.ts besides activeProject
ExtensionState(autoRefresh) ==
    [fn |-> "initializeWorkspaceContext",
     autoRefresh |-> autoRefresh,
     disk |-> NoManifest,
     workspaceRoot |-> <<>>,
     workspaceManifest |-> NoManifest,
     resolvedProjects |-> <<>>,
     subprojectWatchers |-> <<>>,
     runs |-> <<>>,
     seen |-> NoManifest,
     started |-> FALSE]

\* activate() in a folder without manifest: the providers are constructed
\* over the workspace folders and refreshed
InitExtension ==
    /\ configFiles = (Mono :> NoFile) @@ (<<"mono", "app">> :> CfgSaas)
                        @@ (<<"mono", "lib">> :> NoFile)
    /\ specDirs = (Mono :> NoDir) @@ (<<"mono", "app">> :> TreeDone)
                     @@ (<<"mono", "lib">> :> NoDir)
    /\ activeProject = NullProject
    /\ primaryGuardrailWorkspace = <<>>
    /\ \E s \in {refresh(setWorkspacePaths(FieldInitializers, << Mono >>),
                         EnvOf(NullProject, <<>>))} : IsState(s)
    /\ pc = "refreshed"
    /\ \E autoRefresh \in BOOLEAN : call = ExtensionState(autoRefresh)

\* initializeWorkspaceContext up to its first await, when a manifest is found
StartWithManifest(ext, wsInfo) ==
    [ext EXCEPT !.workspaceRoot = wsInfo.root,
                !.workspaceManifest = wsInfo.manifest,
                !.runs = Append(@, [wsInfo |-> wsInfo]),
                !.seen = wsInfo.manifest,
                !.started = TRUE]

\* initializeWorkspaceContext up to its first await, without manifest
StartWithoutManifest(ext) ==
    [ext EXCEPT !.subprojectWatchers = <<>>,
                !.workspaceRoot = <<>>,
                !.workspaceManifest = NoManifest,
                !.resolvedProjects = <<>>,
                !.runs = Append(@, [wsInfo |-> [null |-> TRUE]]),
                !.seen = NoManifest,
                !.started = TRUE]

\* ldf-workspace.yaml is created, changed or deleted and workspaceWatcher
\* calls refreshWorkspace: initializeWorkspaceContext runs to its first
\* await, then refreshAll()
ManifestChanged(manifest) ==
    /\ call.fn = "initializeWorkspaceContext"
    /\ Len(call.runs) < MaxRuns
    /\ manifest # call.disk
    /\ \E wsInfo \in {detectWorkspaceContext(manifest)} :
          IF ~wsInfo.null
          THEN /\ call' = StartWithManifest([call EXCEPT !.disk = manifest], wsInfo)
               /\ \E s \in {refresh(Self, Env)} : Becomes(s) /\ pc' = Outcome(s, Env)
               /\ UNCHANGED activeProject
          ELSE /\ call' = StartWithoutManifest([call EXCEPT !.disk = manifest])
               /\ activeProject' = NullProject
               /\ \E env \in {EnvOf(NullProject, primaryGuardrailWorkspace)} :
                     \E fallback \in {refresh(setWorkspacePaths(Self, << Mono >>), env)} :
                        \E s \in {refresh(fallback, env)} :
                            Becomes(s) /\ pc' = Outcome(s, env)
    /\ UNCHANGED <<primaryGuardrailWorkspace, fileVars>>

\* run i continues after its awaits and runs to its end
Resume(i) ==
    /\ call.fn = "initializeWorkspaceContext"
    /\ i \in DOMAIN call.runs
    /\ \E wsInfo \in {call.runs[i].wsInfo} :
       \E rest \in {SubSeq(call.runs, 1, i - 1) \o SubSeq(call.runs, i + 1, Len(call.runs))} :
          IF wsInfo.null
          THEN /\ call' = [call EXCEPT !.runs = rest]
               /\ UNCHANGED providerVars
               /\ UNCHANGED pc
          ELSE \E resolved \in {ResolvedProjects(wsInfo, resolveProjects(wsInfo.manifest))} :
               /\ call' = [call EXCEPT !.runs = rest,
                                       !.resolvedProjects = resolved,
                                       !.subprojectWatchers =
                                           IF call.autoRefresh THEN WatchersFor(resolved) ELSE @]
               /\ \E s \in {refresh(setWorkspacePaths(Self,
                                       [k \in DOMAIN resolved |-> resolved[k].path]), Env)} :
                     Becomes(s) /\ pc' = Outcome(s, Env)
    /\ UNCHANGED <<activeProject, primaryGuardrailWorkspace, fileVars>>

\* command ldf.switchProject: the user picks project k of the manifest held
\* in workspaceManifest; setActiveProject, then the providers are refreshed
SwitchProject(k) ==
    /\ call.fn = "initializeWorkspaceContext"
    /\ ~call.workspaceManifest.null
    /\ call.workspaceRoot # <<>>
    /\ \E projects \in {resolveProjects(call.workspaceManifest)} :
          /\ k \in DOMAIN projects
          /\ \E project \in {[null |-> FALSE, alias |-> projects[k].alias,
                              path |-> PathResolve(call.workspaceRoot, projects[k].path),
                              name |-> projects[k].alias]} :
                /\ activeProject' = project
                /\ \E env \in {EnvOf(project, primaryGuardrailWorkspace)} :
                      \E s \in {refresh(refresh(Self, env), env)} :
                          Becomes(s) /\ pc' = Outcome(s, env)
    /\ UNCHANGED <<primaryGuardrailWorkspace, fileVars, call>>

NextExtension ==
    \/ \E manifest \in Manifests : ManifestChanged(manifest)
    \/ \E i \in 1..MaxRuns : Resume(i)
    \/ \E k \in 1..2 : SwitchProject(k)

SpecExtension == InitExtension /\ [][NextExtension]_vars

\* no run of initializeWorkspaceContext is suspended
Quiescent == call.fn = "initializeWorkspaceContext" /\ call.runs = <<>>

\* C29: when no run is in progress, an active project is one of the roots
\* in the provider's root list, whatever the switches of project and the
\* manifest changes before (projects taken out of the manifest, manifest
\* removed).
C29_ActiveProjectIsARoot ==
    (Quiescent /\ ~activeProject.null) =>
        \E i \in DOMAIN workspacePaths : workspacePaths[i].path = activeProject.path

\* what a run that finds the manifest leaves when it runs alone
SettledFor(manifest) ==
    IF manifest.null
    THEN /\ call.workspaceRoot = <<>>
         /\ call.workspaceManifest = NoManifest
         /\ call.resolvedProjects = <<>>
         /\ call.subprojectWatchers = <<>>
         /\ workspacePaths = << WorkspaceEntry(Mono) >>
    ELSE \E resolved \in {ResolvedProjects(detectWorkspaceContext(manifest),
                                           resolveProjects(manifest))} :
         /\ call.workspaceRoot = Mono
         /\ call.workspaceManifest = manifest
         /\ call.resolvedProjects = resolved
         /\ call.subprojectWatchers = (IF call.autoRefresh THEN WatchersFor(resolved) ELSE <<>>)
         /\ workspacePaths = [k \in DOMAIN resolved |-> WorkspaceEntry(resolved[k].path)]

\* C30: once every run of initializeWorkspaceContext has finished, the
\* workspace root, the manifest, the resolved projects, the provider's root
\* list and the live subproject watchers are those of the manifest that the
\* run started last has seen, and every live watcher is on a resolved project.
C30_LastStartedRunWins ==
    (Quiescent /\ call.started) =>
        /\ SettledFor(call.seen)
        /\ \A w \in Range(call.subprojectWatchers) :
              \E p \in Range(call.resolvedProjects) : p.path = w.project
====
